---- MODULE Spec2Model ----
(***************************************************************************)
(* Rules engine (GoEngine, ZobristHasher), its service wrapper             *)
(* (GoEngineService), the session coordinator (GameManager) and the        *)
(* matchmaking queue (MatchmakingService, with the connections map of      *)
(* WebSocketHandler) of the sekigo server, as state machines.              *)
(*                                                                         *)
(* Scale.  The program plays on 9, 13 or 19 lines.  The model keeps these  *)
(* nominal sizes in boardSize (komi and the size check read them) and lays *)
(* the grid out on Lines(boardSize) lines, 2 for size 9 and 3 for 13/19,   *)
(* so that captures, suicide and position cycles are reached in few moves. *)
(***************************************************************************)
EXTENDS Integers, Sequences, FiniteSets, TLC

VARIABLES
    gameStates,     \* GoEngine.gameStates : Map<gameId, GameState>
    activeGames,    \* GameManager.activeGames : Map<gameId, Game>
    endTasks,       \* endGame invocations, in call order, each at its await
    issuedIds,      \* game ids createGame has given out
    endReports,     \* history: per game id, the game_ended messages sent
    ratingUpdates,  \* per game id: completed ratingService.updateRatings calls
    statsRecords,   \* per game id: completed statsService.recordGameResult calls
    positions,      \* history: per game id, the boards the game has been through
    queues,         \* MatchmakingService.queues : Map<boardSize, entries>, in insertion order
    queuedUsers,    \* MatchmakingService.queuedUsers : Map<identityKey, {boardSize, joinedAt}>
    wsConnections,  \* WebSocketHandler.connections : Map<identityKey, socket>
    openSockets,    \* the sockets that are open and carry an identity key
    now,            \* Date.now(), in milliseconds since the server started
    matches         \* history: the pairs processQueues has handed to createMatch

engineVars == <<gameStates>>
managerVars == <<activeGames, endTasks, ratingUpdates, statsRecords,
                 issuedIds, endReports>>
matchVars == <<queues, queuedUsers, wsConnections, openSockets, now, matches>>
vars == <<gameStates, activeGames, endTasks, ratingUpdates, statsRecords,
          issuedIds, endReports, positions, matchVars>>

----------------------------------------------------------------------------
(* Bounds of the model *)

\* applied actions per game on the 2-line grid
MaxMovesSmall == 6
\* applied actions per game on the 3-line grid
MaxMovesLarge == 3
\* accepted moves per game under the game manager, on the 2-line grid
MaxManagedSmall == 3
\* accepted moves per game under the game manager, on the 3-line grid
MaxManagedLarge == 1
\* endGame invocations
MaxEndCalls == 2
\* advances of the clock per run of the server
MaxAdvances == 2

----------------------------------------------------------------------------
(* Values *)

Null == "null"
Undefined == "undefined"
\* null in a field that otherwise holds a hash string
NoHash == <<>>
\* what Map.get returns for a key that is not there
NoGame == [undefined |-> TRUE]
Colors == {"black", "white"}
GameIds == {"g1", "g2"}
\* the ids the engine-level specification creates; "g2" stays unknown there
EngineIds == {"g1"}
BoardSizes == {9, 13}

Lines(boardSize) == IF boardSize = 9 THEN 2 ELSE 3

MaxMoves(boardSize) == IF Lines(boardSize) = 2 THEN MaxMovesSmall ELSE MaxMovesLarge

\* coordinates a request for a game may carry: every point of its grid, and one
\* line below and one line above it
Coords(gs, gameId) ==
    IF gs[gameId] = NoGame THEN {0} ELSE -1 .. Lines(gs[gameId].boardSize)

Opponent(color) == IF color = "black" THEN "white" ELSE "black"

Pos(x, y) == [x |-> x, y |-> y]

SeqToSet(s) == {s[i] : i \in 1 .. Len(s)}

RECURSIVE Flatten(_)
Flatten(ss) == IF ss = <<>> THEN <<>> ELSE Head(ss) \o Flatten(Tail(ss))

----------------------------------------------------------------------------
(* ZobristHasher *)

RECURSIVE Pow2(_)
Pow2(k) == IF k = 0 THEN 1 ELSE 2 * Pow2(k - 1)

\* bigint ^
RECURSIVE XOR(_, _)
XOR(a, b) ==
    IF a = 0 THEN b
    ELSE IF b = 0 THEN a
    ELSE (((a % 2) + (b % 2)) % 2) + (2 * XOR(a \div 2, b \div 2))

\* generateTable draws every entry at random.  Two draws are modelled: one in
\* which all entries have a bit of their own (no two boards share a hash), and
\* a low-entropy one in which entries repeat (different boards may collide).
TableDraws == {"distinct", "repeating"}

generateTable(n, draw) ==
    [y \in 0 .. n - 1 |-> [x \in 0 .. n - 1 |->
        IF draw = "distinct"
        THEN [black |-> Pow2(2 * ((y * n) + x)), white |-> Pow2((2 * ((y * n) + x)) + 1)]
        ELSE [black |-> 1 + ((y + x) % 3), white |-> 1 + ((y + (2 * x) + 1) % 3)]]]

ZobristHasher(boardSize, draw) ==
    [boardSize |-> boardSize, table |-> generateTable(Lines(boardSize), draw)]

RECURSIVE hashCells(_, _, _, _)
hashCells(hasher, board, k, hash) ==
    LET n == Lines(hasher.boardSize)
        y == k \div n
        x == k % n
        stone == board[y][x]
    IN  IF k >= n * n THEN hash
        ELSE hashCells(hasher, board, k + 1,
                IF stone = "black" THEN XOR(hash, hasher.table[y][x].black)
                ELSE IF stone = "white" THEN XOR(hash, hasher.table[y][x].white)
                ELSE hash)

hashBoard(hasher, board) == hashCells(hasher, board, 0, 0)

HexDigit == <<"0", "1", "2", "3", "4", "5", "6", "7",
              "8", "9", "a", "b", "c", "d", "e", "f">>

\* hash.toString(16)
RECURSIVE hashToString(_)
hashToString(hash) ==
    IF hash < 16 THEN <<HexDigit[hash + 1]>>
    ELSE Append(hashToString(hash \div 16), HexDigit[(hash % 16) + 1])

----------------------------------------------------------------------------
(* GoEngine: groups and liberties *)

createEmptyBoard(size) == [y \in 0 .. size - 1 |-> [x \in 0 .. size - 1 |-> Null]]

\* board.length
BoardLength(board) == Cardinality(DOMAIN board)

getAdjacentPositions(x, y, boardSize) ==
    (IF x > 0 THEN <<Pos(x - 1, y)>> ELSE <<>>)
    \o (IF x < boardSize - 1 THEN <<Pos(x + 1, y)>> ELSE <<>>)
    \o (IF y > 0 THEN <<Pos(x, y - 1)>> ELSE <<>>)
    \o (IF y < boardSize - 1 THEN <<Pos(x, y + 1)>> ELSE <<>>)

RECURSIVE getGroupLoop(_, _, _, _, _)
getGroupLoop(board, color, queue, visited, group) ==
    IF queue = <<>> THEN group
    ELSE LET pos == Head(queue)
             seen == visited \cup {pos}
             adjacent == getAdjacentPositions(pos.x, pos.y, BoardLength(board))
             more == SelectSeq(adjacent,
                        LAMBDA adj : adj \notin seen /\ board[adj.y][adj.x] = color)
         IN  IF pos \in visited
             THEN getGroupLoop(board, color, Tail(queue), visited, group)
             ELSE IF board[pos.y][pos.x] = color
             THEN getGroupLoop(board, color, Tail(queue) \o more, seen, Append(group, pos))
             ELSE getGroupLoop(board, color, Tail(queue), seen, group)

\* the stone alone, not the group it belongs to
getGroupStoneOnly(board, x, y, color) ==
    IF board[y][x] # color THEN <<>> ELSE <<Pos(x, y)>>

getGroup(board, x, y, color) ==
    IF board[y][x] # color THEN <<>>
    ELSE getGroupLoop(board, color, <<Pos(x, y)>>, {}, <<>>)

\* looks at the first stone of the group only
groupHasLibertiesFirstStone(board, group) ==
    /\ group # <<>>
    /\ LET adjacent == getAdjacentPositions(group[1].x, group[1].y, BoardLength(board))
       IN  \E j \in 1 .. Len(adjacent) : board[adjacent[j].y][adjacent[j].x] = Null

groupHasLiberties(board, group) ==
    \E i \in 1 .. Len(group) :
        LET adjacent == getAdjacentPositions(group[i].x, group[i].y, BoardLength(board))
        IN  \E j \in 1 .. Len(adjacent) : board[adjacent[j].y][adjacent[j].x] = Null

\* the positions of the group are not marked
checkedForgotten(checked, group) == checked

\* checked.add for every position of the group
checkedAfter(checked, group) == checked \cup SeqToSet(group)

RECURSIVE findCapturedLoop(_, _, _, _, _)
findCapturedLoop(board, opponentColor, adjacent, checked, capturedGroups) ==
    IF adjacent = <<>> THEN capturedGroups
    ELSE LET pos == Head(adjacent)
             group == getGroup(board, pos.x, pos.y, opponentColor)
         IN  IF board[pos.y][pos.x] = opponentColor /\ pos \notin checked
             THEN findCapturedLoop(board, opponentColor, Tail(adjacent),
                      checkedAfter(checked, group),
                      IF ~groupHasLiberties(board, group)
                      THEN Append(capturedGroups, group) ELSE capturedGroups)
             ELSE findCapturedLoop(board, opponentColor, Tail(adjacent),
                      checked, capturedGroups)

findCapturedGroups(board, x, y, color) ==
    findCapturedLoop(board, Opponent(color),
        getAdjacentPositions(x, y, BoardLength(board)), {}, <<>>)

\* the captured stones stay on the board
groupsKept(board, capturedGroups) == board

\* board[pos.y][pos.x] = null for every pos of every group
removeGroups(board, capturedGroups) ==
    LET gone == SeqToSet(Flatten(capturedGroups))
    IN  [y \in DOMAIN board |-> [x \in DOMAIN board[y] |->
            IF Pos(x, y) \in gone THEN Null ELSE board[y][x]]]

----------------------------------------------------------------------------
(* GoEngine: game state *)

\* every board size gets 6.5
defaultKomiOfLargeBoard(boardSize) == 13

\* the komi of a game created without one, in half points: 6.5 on 19 and
\* 13 lines, 0.5 otherwise
defaultKomi(boardSize) ==
    IF boardSize = 19 THEN 13 ELSE IF boardSize = 13 THEN 13 ELSE 1

createGameState(gs, gameId, boardSize, draw) ==
    LET komi2 == defaultKomi(boardSize)
        hasher == ZobristHasher(boardSize, draw)
        board == createEmptyBoard(Lines(boardSize))
        boardHash == hashBoard(hasher, board)
    IN  [gs EXCEPT ![gameId] =
            [gameId |-> gameId,
             boardSize |-> boardSize,
             komi2 |-> komi2,
             board |-> board,
             currentPlayer |-> "black",
             moveNumber |-> 0,
             moveHistory |-> <<>>,
             previousHashes |-> {hashToString(boardHash)},
             hasher |-> hasher,
             consecutivePasses |-> 0,
             capturedStones |-> [black |-> 0, white |-> 0],
             lastKoHash |-> NoHash,
             status |-> Undefined]]

\* the scratch board of isLegalMove: a copy of state.board with the stone on it
testBoardOf(state, x, y, color) == [state.board EXCEPT ![y][x] = color]

\* the scratch board is state.board itself, not a copy
boardAfterQueryAliased(state, boardAfterCapture) == boardAfterCapture

\* what isLegalMove leaves in state.board: it writes to its copies only
boardAfterQuery(state, boardAfterCapture) == state.board

\* the turn is checked before the point
structuralCheckTurnFirst(state, x, y, color) ==
    LET n == Lines(state.boardSize)
    IN  IF x < 0 \/ x >= n \/ y < 0 \/ y >= n THEN "invalid_coordinates"
        ELSE IF state.currentPlayer # color THEN "not_your_turn"
        ELSE IF state.board[y][x] # Null THEN "position_occupied"
        ELSE "none"

\* the checks that need no simulation, in the order of the code
structuralCheck(state, x, y, color) ==
    LET n == Lines(state.boardSize)
    IN  IF x < 0 \/ x >= n \/ y < 0 \/ y >= n THEN "invalid_coordinates"
        ELSE IF state.board[y][x] # Null THEN "position_occupied"
        ELSE IF state.currentPlayer # color THEN "not_your_turn"
        ELSE "none"

\* simple ko only: the position before the last move
seenBeforeLastOnly(state, hashString) == hashString = state.lastKoHash

\* state.previousHashes.has(hashString)
seenBefore(state, hashString) == hashString \in state.previousHashes

isLegalMove(gs, gameId, x, y, color) ==
    LET state == gs[gameId]
        structural == structuralCheck(state, x, y, color)
        testBoard == testBoardOf(state, x, y, color)
        capturedGroups == findCapturedGroups(testBoard, x, y, color)
        boardAfterCapture == removeGroups(testBoard, capturedGroups)
        placedGroup == getGroup(boardAfterCapture, x, y, color)
        hasLiberties == groupHasLiberties(boardAfterCapture, placedGroup)
        hashString == hashToString(hashBoard(state.hasher, boardAfterCapture))
        after == [gs EXCEPT ![gameId].board = boardAfterQuery(state, boardAfterCapture)]
    IN  IF state = NoGame
        THEN [ok |-> FALSE, reason |-> "game_not_found", gameStates |-> gs]
        ELSE IF structural # "none"
        THEN [ok |-> FALSE, reason |-> structural, gameStates |-> gs]
        ELSE IF Len(capturedGroups) = 0 /\ ~hasLiberties
        THEN [ok |-> FALSE, reason |-> "suicide_move", gameStates |-> after]
        ELSE IF seenBefore(state, hashString)
        THEN [ok |-> FALSE, reason |-> "ko_violation", gameStates |-> after]
        ELSE [ok |-> TRUE, reason |-> "none", gameStates |-> after]

\* `Game ${gameId} not found`
GameNotFoundMessage(gameId) ==
    IF gameId = "g1" THEN "Game g1 not found" ELSE "Game g2 not found"

\* `Illegal move: ${validation.reason}`
IllegalMoveMessage(reason) ==
    CASE reason = "game_not_found" -> "Illegal move: game_not_found"
      [] reason = "invalid_coordinates" -> "Illegal move: invalid_coordinates"
      [] reason = "position_occupied" -> "Illegal move: position_occupied"
      [] reason = "not_your_turn" -> "Illegal move: not_your_turn"
      [] reason = "suicide_move" -> "Illegal move: suicide_move"
      [] reason = "ko_violation" -> "Illegal move: ko_violation"

\* the counter survives a placement
passesKept(state) == state.consecutivePasses

\* state.consecutivePasses = 0
passesAfterPlacement(state) == 0

\* state.consecutivePasses >= 2
passEnds(consecutivePasses) == consecutivePasses >= 2

\* the counter runs ahead, as if the move had been applied twice
moveNumberCountedTwice(state) == state.moveNumber + 2

\* state.moveNumber++
nextMoveNumber(state) == state.moveNumber + 1

\* a validation that lets a placement out of turn through
validateIgnoringTurn(gs, gameId, x, y, color) ==
    LET validation == isLegalMove(gs, gameId, x, y, color)
    IN  IF validation.reason = "not_your_turn"
        THEN [validation EXCEPT !.ok = TRUE] ELSE validation

\* the validation applyMove runs before it touches the state
validateInApply(gs, gameId, x, y, color) == isLegalMove(gs, gameId, x, y, color)

\* only the newest fingerprint is kept
hashesLatestOnly(state, newHashString) == {newHashString}

\* state.previousHashes.add(newHashString)
hashesAfterPlacement(state, newHashString) == state.previousHashes \cup {newHashString}

applyMove(gs, gameId, x, y, color) ==
    LET validation == validateInApply(gs, gameId, x, y, color)
        state == validation.gameStates[gameId]
        currentHashString == hashToString(hashBoard(state.hasher, state.board))
        placed == [state.board EXCEPT ![y][x] = color]
        capturedGroups == findCapturedGroups(placed, x, y, color)
        allCaptures == Flatten(capturedGroups)
        totalCaptured == Len(allCaptures)
        board == removeGroups(placed, capturedGroups)
        newHashString == hashToString(hashBoard(state.hasher, board))
        moveNumber == nextMoveNumber(state)
        applied ==
            [state EXCEPT
                !.board = board,
                !.capturedStones[color] = @ + totalCaptured,
                !.previousHashes = hashesAfterPlacement(state, newHashString),
                !.lastKoHash = currentHashString,
                !.moveNumber = moveNumber,
                !.moveHistory = Append(@, [color |-> color, x |-> x, y |-> y,
                                           moveNumber |-> moveNumber,
                                           captures |-> Len(allCaptures)]),
                !.currentPlayer = Opponent(color),
                !.consecutivePasses = passesAfterPlacement(state)]
    IN  IF gs[gameId] = NoGame
        THEN [threw |-> TRUE, message |-> GameNotFoundMessage(gameId),
              gameStates |-> gs, captures |-> <<>>, newHash |-> Undefined]
        ELSE IF ~validation.ok
        THEN [threw |-> TRUE, message |-> IllegalMoveMessage(validation.reason),
              gameStates |-> validation.gameStates, captures |-> <<>>,
              newHash |-> Undefined]
        ELSE [threw |-> FALSE, message |-> "none",
              gameStates |-> [validation.gameStates EXCEPT ![gameId] = applied],
              captures |-> allCaptures, newHash |-> newHashString]

passMove(gs, gameId, color) ==
    LET state == gs[gameId]
        moveNumber == nextMoveNumber(state)
        consecutivePasses == state.consecutivePasses + 1
        ended == passEnds(consecutivePasses)
        passed ==
            [state EXCEPT
                !.consecutivePasses = consecutivePasses,
                !.moveNumber = moveNumber,
                !.moveHistory = Append(@, [color |-> color, pass |-> TRUE,
                                           moveNumber |-> moveNumber]),
                !.currentPlayer = Opponent(color),
                !.status = IF ended THEN "finished" ELSE @]
    IN  IF state = NoGame
        THEN [threw |-> TRUE, message |-> GameNotFoundMessage(gameId),
              gameStates |-> gs, ended |-> FALSE]
        ELSE IF state.currentPlayer # color
        THEN [threw |-> TRUE, message |-> "Not your turn",
              gameStates |-> gs, ended |-> FALSE]
        ELSE [threw |-> FALSE, message |-> "none",
              gameStates |-> [gs EXCEPT ![gameId] = passed], ended |-> ended]

getGameState(gs, gameId) == gs[gameId]

cleanupGame(gs, gameId) == [gs EXCEPT ![gameId] = NoGame]

----------------------------------------------------------------------------
(* GoEngine: scoring *)

RECURSIVE getEmptyRegionLoop(_, _, _, _)
getEmptyRegionLoop(board, queue, visited, region) ==
    IF queue = <<>> THEN [region |-> region, visited |-> visited]
    ELSE LET pos == Head(queue)
             seen == visited \cup {pos}
             adjacent == getAdjacentPositions(pos.x, pos.y, BoardLength(board))
             more == SelectSeq(adjacent,
                        LAMBDA adj : adj \notin seen /\ board[adj.y][adj.x] = Null)
         IN  IF pos \in visited
             THEN getEmptyRegionLoop(board, Tail(queue), visited, region)
             ELSE IF board[pos.y][pos.x] = Null
             THEN getEmptyRegionLoop(board, Tail(queue) \o more, seen, Append(region, pos))
             ELSE getEmptyRegionLoop(board, Tail(queue), seen, region)

getEmptyRegion(board, startX, startY, visited) ==
    IF board[startY][startX] # Null THEN [region |-> <<>>, visited |-> visited]
    ELSE getEmptyRegionLoop(board, <<Pos(startX, startY)>>, visited, <<>>)

\* a region is given to black as soon as a black stone touches it
analyzeTerritoryBlackFirst(board, region) ==
    LET touchingColors ==
            {c \in Colors : \E i \in 1 .. Len(region) :
                LET adjacent == getAdjacentPositions(region[i].x, region[i].y,
                                                     BoardLength(board))
                IN  \E j \in 1 .. Len(adjacent) :
                        board[adjacent[j].y][adjacent[j].x] = c}
    IN  IF "black" \in touchingColors THEN "black"
        ELSE IF "white" \in touchingColors THEN "white" ELSE Null

analyzeTerritory(board, region) ==
    LET touchingColors ==
            {c \in Colors : \E i \in 1 .. Len(region) :
                LET adjacent == getAdjacentPositions(region[i].x, region[i].y,
                                                     BoardLength(board))
                IN  \E j \in 1 .. Len(adjacent) :
                        board[adjacent[j].y][adjacent[j].x] = c}
    IN  IF Cardinality(touchingColors) = 1
        THEN (IF "black" \in touchingColors THEN "black" ELSE "white")
        ELSE Null

countStones(board, color) ==
    Cardinality({p \in (DOMAIN board) \X (DOMAIN board) : board[p[2]][p[1]] = color})

RECURSIVE territoryLoop(_, _, _, _)
territoryLoop(board, k, visited, territory) ==
    LET n == BoardLength(board)
        y == k \div n
        x == k % n
        found == getEmptyRegion(board, x, y, visited)
        owner == analyzeTerritory(board, found.region)
    IN  IF k >= n * n THEN territory
        ELSE IF board[y][x] = Null /\ Pos(x, y) \notin visited
        THEN territoryLoop(board, k + 1, found.visited,
                IF owner = Null THEN territory
                ELSE [territory EXCEPT ![owner] = @ + Len(found.region)])
        ELSE territoryLoop(board, k + 1, visited, territory)

\* the result scoreChinese returns; scores and komi are carried in half points
scoreResult(black2, white2, komi2) ==
    LET scoreDiff2 == black2 - white2
    IN  [black2 |-> black2,
         white2 |-> white2,
         winner |-> IF scoreDiff2 > 0 THEN "black"
                    ELSE IF scoreDiff2 < 0 THEN "white" ELSE Null,
         scoreDiff2 |-> IF scoreDiff2 < 0 THEN -scoreDiff2 ELSE scoreDiff2,
         komi2 |-> komi2]

scoreWith(state, territory) ==
    scoreResult(2 * (countStones(state.board, "black") + territory.black),
                (2 * (countStones(state.board, "white") + territory.white)) + state.komi2,
                state.komi2)

scoreChinese(gs, gameId) ==
    scoreWith(gs[gameId],
              territoryLoop(gs[gameId].board, 0, {}, [black |-> 0, white |-> 0]))

\* scoring uses the komi up
stateAfterScoringKomiSpent(state, scored) == [state EXCEPT !.komi2 = 0]

\* the game state scoreChinese leaves: it writes to its own counters, to
\* its visited array and to the regions only
stateAfterScoring(state, scored) == state

\* the engine after scoreChinese has returned
afterScoreChinese(gs, gameId) ==
    [gs EXCEPT ![gameId] = stateAfterScoring(gs[gameId], scoreChinese(gs, gameId))]

----------------------------------------------------------------------------
(* GoEngineService *)

initializeGame(gs, gameId, boardSize, draw) == createGameState(gs, gameId, boardSize, draw)

\* what playMove returns once applyMove has returned or thrown
playResult(result, gameId) ==
    IF result.threw
    THEN [valid |-> FALSE, reason |-> result.message, gameStates |-> result.gameStates]
    ELSE [valid |-> TRUE, reason |-> "none", gameStates |-> result.gameStates,
          boardState |-> result.gameStates[gameId].board,
          capturedStones |-> result.gameStates[gameId].capturedStones,
          captures |-> result.captures, ended |-> FALSE]

\* playMove after its legality check
playValidated(validation, gameId, color, x, y) ==
    IF ~validation.ok
    THEN [valid |-> FALSE, reason |-> validation.reason,
          gameStates |-> validation.gameStates]
    ELSE playResult(applyMove(validation.gameStates, gameId, x, y, color), gameId)

playMove(gs, gameId, color, x, y) ==
    playValidated(isLegalMove(gs, gameId, x, y, color), gameId, color, x, y)

\* what handlePass returns once passMove has returned or thrown
passResult(result, gameId) ==
    IF result.threw
    THEN [valid |-> FALSE, reason |-> result.message, gameStates |-> result.gameStates]
    ELSE [valid |-> TRUE, reason |-> "none", gameStates |-> result.gameStates,
          boardState |-> result.gameStates[gameId].board,
          capturedStones |-> result.gameStates[gameId].capturedStones,
          captures |-> <<>>, ended |-> result.ended]

handlePass(gs, gameId, color) == passResult(passMove(gs, gameId, color), gameId)

\* the end result checkGameEnd builds from the score
twoPassesResult(scored) ==
    [ended |-> TRUE, reason |-> "two_passes", winner |-> scored.winner,
     finalScore2 |-> [black |-> scored.black2, white |-> scored.white2],
     scoreDiff2 |-> scored.scoreDiff2, komi2 |-> scored.komi2]

checkGameEnd(gs, gameId, lastMoveResult) ==
    IF getGameState(gs, gameId) = NoGame THEN [ended |-> FALSE]
    ELSE IF lastMoveResult.ended THEN twoPassesResult(scoreChinese(gs, gameId))
    ELSE [ended |-> FALSE]

----------------------------------------------------------------------------
(* The engine driven directly, as its unit tests drive it *)

NoMessages == <<>>

Init ==
    /\ gameStates = [g \in GameIds |-> NoGame]
    /\ activeGames = [g \in GameIds |-> NoGame]
    /\ endTasks = <<>>
    /\ ratingUpdates = [g \in GameIds |-> 0]
    /\ statsRecords = [g \in GameIds |-> 0]
    /\ issuedIds = {}
    /\ endReports = [g \in GameIds |-> <<>>]
    /\ positions = [g \in GameIds |-> <<>>]
    /\ queues = <<>>
    /\ queuedUsers = [identityKey \in {} |-> NoGame]
    /\ wsConnections = [identityKey \in {} |-> NoGame]
    /\ openSockets = {}
    /\ now = 0
    /\ matches = <<>>

IsPass(entry) == "pass" \in DOMAIN entry

\* positions follows the engine: the empty board at creation, then the board
\* after every applied placement
Recorded(gs, after) ==
    positions' = [g \in GameIds |->
        IF after[g] = NoGame THEN <<>>
        ELSE IF gs[g] = NoGame THEN <<after[g].board>>
        ELSE IF /\ Len(after[g].moveHistory) > Len(gs[g].moveHistory)
                /\ ~IsPass(after[g].moveHistory[Len(after[g].moveHistory)])
             THEN Append(positions[g], after[g].board)
             ELSE positions[g]]

\* the model stops a game after MaxMoves applied actions
UnderMoveCap(gs, gameId) ==
    gs[gameId] # NoGame => gs[gameId].moveNumber < MaxMoves(gs[gameId].boardSize)

CreateGameState(gameId, boardSize, draw) ==
    /\ gameStates[gameId] = NoGame
    /\ gameStates' = createGameState(gameStates, gameId, boardSize, draw)
    /\ Recorded(gameStates, gameStates')
    /\ UNCHANGED <<managerVars, matchVars>>

IsLegalMove(gameId, x, y, color) ==
    /\ gameStates' = isLegalMove(gameStates, gameId, x, y, color).gameStates
    /\ Recorded(gameStates, gameStates')
    /\ UNCHANGED <<managerVars, matchVars>>

ApplyMove(gameId, x, y, color) ==
    /\ UnderMoveCap(gameStates, gameId)
    /\ gameStates' = applyMove(gameStates, gameId, x, y, color).gameStates
    /\ Recorded(gameStates, gameStates')
    /\ UNCHANGED <<managerVars, matchVars>>

PassMove(gameId, color) ==
    /\ UnderMoveCap(gameStates, gameId)
    /\ gameStates' = passMove(gameStates, gameId, color).gameStates
    /\ Recorded(gameStates, gameStates')
    /\ UNCHANGED <<managerVars, matchVars>>

\* scoreChinese reads the state and returns the score; for an unknown game
\* it throws
ScoreChinese(gameId) ==
    /\ gameStates[gameId] # NoGame
    /\ gameStates' = afterScoreChinese(gameStates, gameId)
    /\ Recorded(gameStates, gameStates')
    /\ UNCHANGED <<managerVars, matchVars>>

CleanupGame(gameId) ==
    /\ gameStates[gameId] # NoGame
    /\ gameStates' = cleanupGame(gameStates, gameId)
    /\ Recorded(gameStates, gameStates')
    /\ UNCHANGED <<managerVars, matchVars>>

Next ==
    \/ \E gameId \in EngineIds, boardSize \in BoardSizes, draw \in TableDraws :
          CreateGameState(gameId, boardSize, draw)
    \/ \E gameId \in GameIds, color \in Colors :
          \E x \in Coords(gameStates, gameId), y \in Coords(gameStates, gameId) :
              IsLegalMove(gameId, x, y, color)
    \/ \E gameId \in GameIds, color \in Colors :
          \E x \in Coords(gameStates, gameId), y \in Coords(gameStates, gameId) :
              ApplyMove(gameId, x, y, color)
    \/ \E gameId \in GameIds, color \in Colors : PassMove(gameId, color)
    \/ \E gameId \in GameIds : ScoreChinese(gameId)
    \/ \E gameId \in EngineIds : CleanupGame(gameId)

Spec == Init /\ [][Next]_vars

----------------------------------------------------------------------------
(* websocketHandler: what the game manager hands over for sending *)

\* the users that hold a connection
Users == {"u1", "u2", "u3"}

\* sendToUser with an identity key ('g:...' or 'a:...')
ToIdentityKey(userId) == [key |-> "identityKey", user |-> userId]
\* sendToUser with a bare user id
ToUserId(userId) == [key |-> "userId", user |-> userId]
\* the identity object handleMessage hands to the game manager
Identity(userId) == [id |-> userId, identityKey |-> ToIdentityKey(userId)]

\* the connections map: one open socket per user, set under the identity key
connections == {ToIdentityKey(userId) : userId \in Users}

NoSocket == [null |-> TRUE]

\* the getConnection in force (the second of the two the class defines): the
\* argument itself is the key looked up
getConnection(userId) == IF userId \in connections THEN userId ELSE NoSocket

Message(to, type, data) == [to |-> to, type |-> type, data |-> data]

sendToUser(to, type, data) == <<Message(to, type, data)>>

sendError(to, error) == <<Message(to, "error", [error |-> error])>>

\* the messages of a handler that sendToUser finds a socket for
delivered(sent) == SelectSeq(sent, LAMBDA m : m.to \in connections)

----------------------------------------------------------------------------
(* GameManager *)

\* the pair matchmaking hands to createGame, black first: two different queue
\* entries; "u3" is seated nowhere
Seats == {<<"u1", "u2">>}
\* the ids createGame gives out
ManagedIds == {"g1"}

\* what a handler works on, and what it leaves behind; sent holds the messages
\* it handed to websocketHandler, in send order
World(gs, games, tasks) ==
    [gameStates |-> gs, activeGames |-> games, endTasks |-> tasks, sent |-> NoMessages,
     threw |-> "none"]

\* sendError(ws, error) as a handler calls it: send reads ws.readyState, which
\* throws a TypeError when getConnection returned null
errorSent(w, ws, error) ==
    IF ws = NoSocket THEN [w EXCEPT !.threw = "TypeError"]
    ELSE [w EXCEPT !.sent = sendError(ws, error)]

broadcastToGame(games, gameId, type, data) ==
    LET game == games[gameId]
    IN  IF game = NoGame THEN NoMessages
        ELSE sendToUser(ToIdentityKey(game.blackPlayerId), type, data)
             \o sendToUser(ToIdentityKey(game.whitePlayerId), type, data)

broadcastGameState(gs, games, gameId) ==
    LET game == games[gameId]
        engineState == getGameState(gs, gameId)
        currentBoardState ==
            IF engineState # NoGame THEN engineState.board ELSE game.boardState
        data(playerColor) ==
            [gameId |-> gameId, boardState |-> currentBoardState,
             currentTurn |-> game.currentTurn, moves |-> game.moves,
             capturedStones |-> game.capturedStones, playerColor |-> playerColor]
    IN  IF game = NoGame THEN NoMessages
        ELSE sendToUser(ToIdentityKey(game.blackPlayerId), "game_state", data("black"))
             \o sendToUser(ToIdentityKey(game.whitePlayerId), "game_state", data("white"))

createGame(w, gameId, blackPlayerId, whitePlayerId, boardSize, draw) ==
    LET game == [id |-> gameId,
                 blackPlayerId |-> blackPlayerId,
                 whitePlayerId |-> whitePlayerId,
                 boardSize |-> boardSize,
                 currentTurn |-> "black",
                 moves |-> <<>>,
                 boardState |-> createEmptyBoard(Lines(boardSize)),
                 capturedStones |-> [black |-> 0, white |-> 0],
                 status |-> "active",
                 winner |-> Undefined,
                 endReason |-> Undefined]
        gs == initializeGame(w.gameStates, gameId, boardSize, draw)
        games == [w.activeGames EXCEPT ![gameId] = game]
    IN  [w EXCEPT !.gameStates = gs,
                  !.activeGames = games,
                  !.sent = broadcastToGame(games, gameId, "game_started",
                               [gameId |-> gameId, boardSize |-> boardSize,
                                currentTurn |-> "black"])
                           \o broadcastGameState(gs, games, gameId)]

\* the part of endGame that runs before its first await
endGame(w, gameId, endResult) ==
    LET game == w.activeGames[gameId]
    IN  IF game = NoGame THEN w
        ELSE [w EXCEPT
                !.activeGames[gameId] =
                    [game EXCEPT !.status = "finished",
                                 !.winner = endResult.winner,
                                 !.endReason = endResult.reason],
                !.endTasks = Append(@, [gameId |-> gameId,
                                        endResult |-> endResult,
                                        game |-> game,
                                        pc |-> "updateRatings"])]

playerColorOf(game, userId) ==
    IF game.blackPlayerId = userId THEN "black"
    ELSE IF game.whitePlayerId = userId THEN "white" ELSE Null

\* the game keeps the turn of the player who moved
currentTurnKept(engineState, playerColor) == playerColor

\* game.currentTurn after an accepted move: the engine's current player
currentTurnAfter(engineState, playerColor) ==
    IF engineState # NoGame THEN engineState.currentPlayer ELSE Opponent(playerColor)

moveRejected(userId, gameId, reason) ==
    sendToUser(ToUserId(userId), "move_rejected", [gameId |-> gameId, reason |-> reason])

\* the entry handleMove pushes on game.moves
moveEntry(game, playerColor, x, y, pass) ==
    [color |-> playerColor,
     x |-> IF pass THEN Null ELSE x,
     y |-> IF pass THEN Null ELSE y,
     pass |-> pass,
     moveNumber |-> Len(game.moves) + 1]

\* the game keeps the board it had
recordedBoardKept(boardState, moveResult) == boardState

\* game.boardState = moveResult.boardState
recordedBoard(boardState, moveResult) == moveResult.boardState

\* the game and the engine after handleMove has taken the engine's result over
moveRecorded(w, gameId, playerColor, move, moveResult) ==
    [w EXCEPT
        !.gameStates = moveResult.gameStates,
        !.activeGames[gameId] =
            [@ EXCEPT
                !.moves = Append(@, move),
                !.currentTurn = currentTurnAfter(getGameState(moveResult.gameStates, gameId),
                                                 playerColor),
                !.boardState = recordedBoard(@, moveResult),
                !.capturedStones = moveResult.capturedStones]]

\* the end of handleMove: into endGame, or the move to both players
moveConcluded(after, gameId, move, moveResult, gameEndResult) ==
    IF moveResult.ended /\ gameEndResult.ended
    THEN endGame(after, gameId, gameEndResult)
    ELSE [after EXCEPT !.sent =
            broadcastToGame(after.activeGames, gameId, "move_accepted",
                [gameId |-> gameId, move |-> move,
                 boardState |-> moveResult.boardState,
                 capturedStones |-> moveResult.capturedStones,
                 captures |-> moveResult.captures,
                 turn |-> after.activeGames[gameId].currentTurn])]

\* handleMove once the engine has answered
moveAnswered(w, userId, gameId, playerColor, move, moveResult) ==
    IF ~moveResult.valid
    THEN [w EXCEPT !.gameStates = moveResult.gameStates,
                   !.sent = moveRejected(userId, gameId, moveResult.reason)]
    ELSE moveConcluded(moveRecorded(w, gameId, playerColor, move, moveResult),
                       gameId, move, moveResult,
                       checkGameEnd(moveResult.gameStates, gameId, moveResult))

handleMove(w, userId, gameId, x, y, pass) ==
    LET game == w.activeGames[gameId]
        playerColor == playerColorOf(game, userId)
    IN  IF game = NoGame
        THEN errorSent(w, getConnection(Identity(userId)), "Game not found")
        ELSE IF playerColor = Null
        THEN errorSent(w, getConnection(Identity(userId)),
                       "You are not a player in this game")
        ELSE IF game.status = "finished"
        THEN [w EXCEPT !.sent = moveRejected(userId, gameId, "game_finished")]
        ELSE IF game.currentTurn # playerColor
        THEN [w EXCEPT !.sent = moveRejected(userId, gameId, "not_your_turn")]
        ELSE moveAnswered(w, userId, gameId, playerColor,
                          moveEntry(game, playerColor, x, y, pass),
                          IF pass THEN handlePass(w.gameStates, gameId, playerColor)
                          ELSE playMove(w.gameStates, gameId, playerColor, x, y))

\* the resigning player is given the game
resignationWonByResigner(playerColor) ==
    [ended |-> TRUE, reason |-> "resignation", winner |-> playerColor]

\* the end result handleResignation hands to endGame
resignationResult(playerColor) ==
    [ended |-> TRUE, reason |-> "resignation", winner |-> Opponent(playerColor)]

handleResignation(w, userId, gameId) ==
    LET game == w.activeGames[gameId]
        playerColor == playerColorOf(game, userId)
    IN  IF game = NoGame THEN w
        ELSE IF playerColor = Null THEN w
        ELSE endGame(w, gameId, resignationResult(playerColor))

\* the last stretch of endGame, after the collaborators have answered
endGameFinish(w, task) ==
    LET gameId == task.gameId
        engineState == getGameState(w.gameStates, gameId)
        finalBoard == IF engineState # NoGame THEN engineState.board
                      ELSE task.game.boardState
    IN  [w EXCEPT
            !.sent = broadcastToGame(w.activeGames, gameId, "game_ended",
                         [gameId |-> gameId, winner |-> task.endResult.winner,
                          reason |-> task.endResult.reason, finalBoard |-> finalBoard])
                     \o sendToUser(ToUserId(task.game.blackPlayerId), "stats_update",
                                   [boardSize |-> task.game.boardSize])
                     \o sendToUser(ToUserId(task.game.whitePlayerId), "stats_update",
                                   [boardSize |-> task.game.boardSize]),
            !.activeGames[gameId] = NoGame,
            !.gameStates = cleanupGame(w.gameStates, gameId)]

----------------------------------------------------------------------------
(* The server: handlers of the game manager and the steps of endGame *)

EndedReports(sent, gameId) ==
    LET ended == SelectSeq(sent, LAMBDA m : m.type = "game_ended" /\ m.data.gameId = gameId)
    IN  [i \in 1 .. Len(ended) |->
            [to |-> ended[i].to.user, winner |-> ended[i].data.winner,
             reason |-> ended[i].data.reason]]

\* the state a handler leaves behind
Becomes(w) ==
    /\ gameStates' = w.gameStates
    /\ activeGames' = w.activeGames
    /\ endTasks' = w.endTasks
    /\ endReports' = [g \in GameIds |->
            endReports[g] \o EndedReports(w.sent, g)]
    /\ Recorded(gameStates, gameStates')

Here == World(gameStates, activeGames, endTasks)

MaxManagedMoves(boardSize) ==
    IF Lines(boardSize) = 2 THEN MaxManagedSmall ELSE MaxManagedLarge

\* the model stops a managed game after MaxManagedMoves accepted moves and
\* the server after MaxEndCalls endGame invocations
UnderManagerCap(w) ==
    /\ Len(w.endTasks) <= MaxEndCalls
    /\ \A g \in GameIds :
          w.activeGames[g] # NoGame =>
              Len(w.activeGames[g].moves) <= MaxManagedMoves(w.activeGames[g].boardSize)

\* the process has exited on an unhandled rejection: the memory of the game
\* manager and of the engine is gone, and a restarted server starts from this
processExit(w) ==
    [w EXCEPT !.gameStates = [g \in GameIds |-> NoGame],
              !.activeGames = [g \in GameIds |-> NoGame],
              !.endTasks = <<>>]

\* handleMessage calls the async handlers without await or catch: a handler
\* that throws leaves an unhandled rejection, on which the process goes on or
\* exits, as the runtime is set (Node.js from version 15 on exits by default)
Outcomes(w) == IF w.threw = "none" THEN {w} ELSE {w, processExit(w)}

\* a handler that touches neither ratings nor statistics has run to its await
Handled(w) ==
    \E o \in Outcomes(w) :
        /\ UnderManagerCap(o)
        /\ Becomes(o)
        /\ UNCHANGED <<ratingUpdates, statsRecords, matchVars>>

CreateGame(gameId, seats, boardSize, draw) ==
    /\ gameId \notin issuedIds
    /\ issuedIds' = issuedIds \cup {gameId}
    /\ Handled(createGame(Here, gameId, seats[1], seats[2], boardSize, draw))

HandleMove(userId, gameId, x, y, pass) ==
    /\ Handled(handleMove(Here, userId, gameId, x, y, pass))
    /\ UNCHANGED issuedIds

HandleResignation(userId, gameId) ==
    /\ Handled(handleResignation(Here, userId, gameId))
    /\ UNCHANGED issuedIds

\* ratingService.updateRatings has read and written the ratings
EndGameRatingsUpdated(i) ==
    /\ endTasks[i].pc = "updateRatings"
    /\ ratingUpdates' = [ratingUpdates EXCEPT ![endTasks[i].gameId] = @ + 1]
    /\ endTasks' = [endTasks EXCEPT ![i].pc = "recordBlack"]
    /\ UNCHANGED <<gameStates, activeGames, statsRecords, issuedIds, endReports, positions,
                   matchVars>>

\* statsService.recordGameResult has written one player's result
EndGameResultRecorded(i) ==
    /\ endTasks[i].pc \in {"recordBlack", "recordWhite"}
    /\ statsRecords' = [statsRecords EXCEPT ![endTasks[i].gameId] = @ + 1]
    /\ endTasks' = [endTasks EXCEPT ![i].pc =
                        IF @ = "recordBlack" THEN "recordWhite" ELSE "getBlackStats"]
    /\ UNCHANGED <<gameStates, activeGames, ratingUpdates, issuedIds, endReports, positions,
                   matchVars>>

\* statsService.getPlayerStats has answered for one player
EndGameStatsRead(i) ==
    /\ endTasks[i].pc = "getBlackStats"
    /\ endTasks' = [endTasks EXCEPT ![i].pc = "getWhiteStats"]
    /\ UNCHANGED <<gameStates, activeGames, ratingUpdates, statsRecords, issuedIds,
                   endReports, positions, matchVars>>

\* the second getPlayerStats has answered: endGame runs to its end
EndGameFinish(i) ==
    /\ endTasks[i].pc = "getWhiteStats"
    /\ Handled(endGameFinish([Here EXCEPT !.endTasks[i].pc = "done"], endTasks[i]))
    /\ UNCHANGED issuedIds

NextGM ==
    \/ \E gameId \in ManagedIds, seats \in Seats, boardSize \in BoardSizes,
          draw \in TableDraws : CreateGame(gameId, seats, boardSize, draw)
    \/ \E userId \in Users, gameId \in GameIds :
          \E x \in Coords(gameStates, gameId), y \in Coords(gameStates, gameId) :
              HandleMove(userId, gameId, x, y, FALSE)
    \/ \E userId \in Users, gameId \in GameIds :
          HandleMove(userId, gameId, Null, Null, TRUE)
    \/ \E userId \in Users, gameId \in GameIds : HandleResignation(userId, gameId)
    \/ \E i \in 1 .. Len(endTasks) : EndGameRatingsUpdated(i)
    \/ \E i \in 1 .. Len(endTasks) : EndGameResultRecorded(i)
    \/ \E i \in 1 .. Len(endTasks) : EndGameStatsRead(i)
    \/ \E i \in 1 .. Len(endTasks) : EndGameFinish(i)

SpecGM == Init /\ [][NextGM]_vars

----------------------------------------------------------------------------
(* The rules of the game, stated without the engine's data structures *)

Points(n) == {Pos(x, y) : x \in 0 .. n - 1, y \in 0 .. n - 1}

Abs(i) == IF i < 0 THEN -i ELSE i

Adjacent(p, q) == Abs(p.x - q.x) + Abs(p.y - q.y) = 1

At(board, p) == board[p.y][p.x]

RECURSIVE Connected(_, _)
Connected(board, S) ==
    LET n == BoardLength(board)
        T == S \cup {q \in Points(n) :
                        \E p \in S : Adjacent(p, q) /\ At(board, q) = At(board, p)}
    IN  IF T = S THEN S ELSE Connected(board, T)

\* the maximal 4-connected set of same-coloured stones holding p
GroupOf(board, p) == Connected(board, {p})

LibertiesOf(board, S) ==
    {q \in Points(BoardLength(board)) :
        At(board, q) = Null /\ \E p \in S : Adjacent(p, q)}

WithStone(board, p, color) == [board EXCEPT ![p.y][p.x] = color]

\* the opponent stones a placement of color at p takes off the board
CapturedBy(board, p, color) ==
    LET placed == WithStone(board, p, color)
    IN  {q \in Points(BoardLength(board)) :
            /\ At(placed, q) = Opponent(color)
            /\ LibertiesOf(placed, GroupOf(placed, q)) = {}
            /\ \E r \in GroupOf(placed, q) : Adjacent(r, p)}

ResultOf(board, p, color) ==
    LET placed == WithStone(board, p, color)
        gone == CapturedBy(board, p, color)
    IN  [y \in DOMAIN board |-> [x \in DOMAIN board[y] |->
            IF Pos(x, y) \in gone THEN Null ELSE placed[y][x]]]

Suicide(board, p, color) ==
    /\ CapturedBy(board, p, color) = {}
    /\ LibertiesOf(WithStone(board, p, color),
                   GroupOf(WithStone(board, p, color), p)) = {}

Grid(gameId) == Points(Lines(gameStates[gameId].boardSize))

Live == {g \in GameIds : gameStates[g] # NoGame}

\* an in-bounds, empty-point, in-turn placement
Playable(gameId, p, color) ==
    /\ p \in Grid(gameId)
    /\ At(gameStates[gameId].board, p) = Null
    /\ gameStates[gameId].currentPlayer = color

----------------------------------------------------------------------------
(* C1  Positional superko.  The boards a game has been through - the empty *)
(* board and the board after every accepted placement - are pairwise       *)
(* distinct, and a placement whose resulting board is any one of them, not *)
(* only the one before the current board, is reported ko_violation.        *)

C1_Superko ==
    \A g \in Live :
        /\ \A i, j \in 1 .. Len(positions[g]) :
              i # j => positions[g][i] # positions[g][j]
        /\ \A p \in Grid(g), color \in Colors :
              (/\ Playable(g, p, color)
               /\ ~Suicide(gameStates[g].board, p, color)
               /\ \E i \in 1 .. Len(positions[g]) :
                     positions[g][i] = ResultOf(gameStates[g].board, p, color))
              => isLegalMove(gameStates, g, p.x, p.y, color).reason = "ko_violation"

\* a placement is rejected for recreating a position older than the one that
\* preceded the current board
C1_Witness ==
    \E g \in Live : \E p \in Grid(g), color \in Colors :
        /\ isLegalMove(gameStates, g, p.x, p.y, color).reason = "ko_violation"
        /\ \E i \in 1 .. Len(positions[g]) - 2 :
              positions[g][i] = ResultOf(gameStates[g].board, p, color)

----------------------------------------------------------------------------
(* C2  Capture correctness.  An applied placement removes exactly the      *)
(* stones of the opponent groups that touch the placed stone and have no   *)
(* liberty once it is placed; every other point except the placed one      *)
(* keeps its content, and the returned captures list holds each removed    *)
(* coordinate once and nothing else.                                       *)

LastMove(g) == gameStates[g].moveHistory[Len(gameStates[g].moveHistory)]

----------------------------------------------------------------------------
(* C3  Suicide rejection.  isLegalMove answers suicide_move for exactly    *)
(* the in-bounds, empty-point, in-turn placements that capture nothing and *)
(* leave the placed stone's group without a liberty; a placement that      *)
(* captures is never answered suicide_move.                                *)

----------------------------------------------------------------------------
(* C5  Two-pass termination.  consecutivePasses counts the passes at the   *)
(* end of the history; passMove returns ended = true, and marks the game   *)
(* finished, exactly when the action before it was a pass; a pass after a  *)
(* placement or at the start does not end the game; an applied placement   *)
(* sets consecutivePasses to 0.                                            *)

RECURSIVE TrailingPasses(_)
TrailingPasses(history) ==
    IF history = <<>> \/ ~IsPass(history[Len(history)]) THEN 0
    ELSE 1 + TrailingPasses(SubSeq(history, 1, Len(history) - 1))

C5_TwoPasses ==
    \A g \in Live :
        LET state == gameStates[g]
            history == state.moveHistory
        IN  /\ state.consecutivePasses = TrailingPasses(history)
            /\ state.status = "finished" =>
                  \E i \in 1 .. Len(history) - 1 :
                      IsPass(history[i]) /\ IsPass(history[i + 1])
            /\ \A color \in Colors :
                  LET result == passMove(gameStates, g, color)
                  IN  ~result.threw =>
                        /\ result.ended <=>
                              (history # <<>> /\ IsPass(history[Len(history)]))
                        /\ result.gameStates[g].status =
                              IF result.ended THEN "finished" ELSE state.status
            /\ \A p \in Grid(g), color \in Colors :
                  LET result == applyMove(gameStates, g, p.x, p.y, color)
                  IN  ~result.threw => result.gameStates[g].consecutivePasses = 0

\* pass, placement, pass: the game is not finished
C5_Witness ==
    \E g \in Live :
        LET history == gameStates[g].moveHistory
            n == Len(history)
        IN  /\ n >= 3
            /\ IsPass(history[n])
            /\ ~IsPass(history[n - 1])
            /\ IsPass(history[n - 2])
            /\ gameStates[g].status # "finished"

----------------------------------------------------------------------------
(* C8  applyMove validates for itself.  Called with a placement that       *)
(* isLegalMove rejects - unknown game, out of bounds, occupied, wrong      *)
(* turn, suicide, ko - it throws and the engine's state is what it was.    *)

ThrewAndKept(result) == result.threw /\ result.gameStates = gameStates

----------------------------------------------------------------------------
(* C9  isLegalMove is a query.  Accepting or rejecting, it leaves the      *)
(* engine's state as it was, and asked again with the same arguments it    *)
(* gives the same answer.                                                  *)

----------------------------------------------------------------------------
(* C10  Order of the checks.  isLegalMove answers with the first check     *)
(* that fails, in the order unknown game, out of bounds, occupied point,   *)
(* wrong turn, suicide, ko.                                                *)

InBounds(g, x, y) == Pos(x, y) \in Grid(g)

----------------------------------------------------------------------------
(* Requests to the game manager and what it answers *)

Managed == {g \in GameIds : activeGames[g] # NoGame}

Seated(g) == {activeGames[g].blackPlayerId, activeGames[g].whitePlayerId}

SeatColor(g, userId) ==
    IF activeGames[g].blackPlayerId = userId THEN "black" ELSE "white"

\* the move requests a client may send for a game
Requests(g) ==
    {[x |-> x, y |-> y, pass |-> FALSE] :
        x \in Coords(gameStates, g), y \in Coords(gameStates, g)}
    \cup {[pass |-> TRUE]}

Answer(g, userId, r) ==
    IF r.pass THEN handleMove(Here, userId, g, Null, Null, TRUE)
    ELSE handleMove(Here, userId, g, r.x, r.y, FALSE)

\* the handler changed nothing the server keeps
Untouched(w) ==
    /\ w.gameStates = gameStates
    /\ w.activeGames = activeGames
    /\ w.endTasks = endTasks

RejectedWith(w, g, userId, reason) ==
    w.sent = <<Message(ToUserId(userId), "move_rejected",
                       [gameId |-> g, reason |-> reason])>>

Rejected(w, g, userId) ==
    /\ Len(w.sent) = 1
    /\ w.sent[1].type = "move_rejected"
    /\ w.sent[1].to = ToUserId(userId)
    /\ w.sent[1].data.gameId = g

\* the handler recorded the request as a move of the game
Accepted(w, g) == Len(w.activeGames[g].moves) = Len(activeGames[g].moves) + 1

----------------------------------------------------------------------------
(* C4  Turn alternation.  Black moves first; after every placement or pass *)
(* that handleMove accepts, the engine's currentPlayer and the game's      *)
(* currentTurn are the opposite of the colour that acted; while the game   *)
(* is active, every move request of the seated player whose colour is not  *)
(* the current player is rejected with not_your_turn and changes nothing;  *)
(* from the end of the game until endGame releases it, every move request  *)
(* of a seated player is rejected with game_finished and changes nothing.  *)

BlackFirst ==
    \A g \in Managed :
        LET game == activeGames[g]
        IN  /\ game.moves = <<>> =>
                game.currentTurn = "black" /\ gameStates[g].currentPlayer = "black"
            /\ game.moves # <<>> => game.moves[1].color = "black"
            /\ game.currentTurn = gameStates[g].currentPlayer

TurnFlips ==
    \A g \in Managed : \A userId \in Seated(g) : \A r \in Requests(g) :
        LET w == Answer(g, userId, r)
        IN  Accepted(w, g) =>
                /\ w.gameStates[g].currentPlayer = Opponent(SeatColor(g, userId))
                /\ w.activeGames[g].currentTurn = Opponent(SeatColor(g, userId))

OutOfTurn(g, userId) == SeatColor(g, userId) # gameStates[g].currentPlayer

----------------------------------------------------------------------------
(* C6  The end of a game takes effect at most once per game id: ratings    *)
(* are updated once, each player's result is recorded once, each player is *)
(* told the result once, winner and reason are those of the first trigger, *)
(* and a second endGame call for the game does nothing.                    *)

EndCalls(g) == {i \in 1 .. Len(endTasks) : endTasks[i].gameId = g}

FirstEndCall(g) == endTasks[CHOOSE i \in EndCalls(g) : \A j \in EndCalls(g) : i <= j]

C6_EndOnce ==
    \A g \in GameIds :
        /\ Cardinality(EndCalls(g)) <= 1
        /\ ratingUpdates[g] <= 1
        /\ statsRecords[g] <= 2
        /\ \A userId \in Users :
              Cardinality({i \in 1 .. Len(endReports[g]) :
                              endReports[g][i].to = userId}) <= 1
        /\ \A i \in 1 .. Len(endReports[g]) :
              /\ endReports[g][i].winner = FirstEndCall(g).endResult.winner
              /\ endReports[g][i].reason = FirstEndCall(g).endResult.reason
        /\ g \in Managed /\ activeGames[g].status = "finished" =>
              /\ activeGames[g].winner = FirstEndCall(g).endResult.winner
              /\ activeGames[g].endReason = FirstEndCall(g).endResult.reason

----------------------------------------------------------------------------
(* C7  Per-game serialization.  handleMove decides a placement request by  *)
(* the legality check in the state it finds and applies it in the same     *)
(* step: an accepted request leaves board, hash set, capture counts and    *)
(* moveNumber as one application of the move leaves them, a rejected one   *)
(* leaves everything as it was, and the same request delivered again right *)
(* after an accepted one is rejected and changes nothing.                  *)

OneApplication(before, after, p, color) ==
    LET board == ResultOf(before.board, p, color)
    IN  /\ after.board = board
        /\ after.moveNumber = before.moveNumber + 1
        /\ Len(after.moveHistory) = Len(before.moveHistory) + 1
        /\ after.previousHashes =
              before.previousHashes \cup {hashToString(hashBoard(before.hasher, board))}
        /\ after.capturedStones[color] =
              before.capturedStones[color]
                  + Cardinality(CapturedBy(before.board, p, color))
        /\ after.capturedStones[Opponent(color)] = before.capturedStones[Opponent(color)]

C7_Serialized ==
    \A g \in Managed : \A userId \in Seated(g) :
        \A x \in Coords(gameStates, g), y \in Coords(gameStates, g) :
            LET color == SeatColor(g, userId)
                first == handleMove(Here, userId, g, x, y, FALSE)
                second == handleMove(World(first.gameStates, first.activeGames,
                                           first.endTasks), userId, g, x, y, FALSE)
            IN  /\ Accepted(first, g) <=>
                      /\ activeGames[g].status = "active"
                      /\ isLegalMove(gameStates, g, x, y, color).ok
                /\ ~Accepted(first, g) => Untouched(first)
                /\ Accepted(first, g) =>
                      /\ OneApplication(gameStates[g], first.gameStates[g],
                                        Pos(x, y), color)
                      /\ first.activeGames[g].boardState = first.gameStates[g].board
                      /\ first.activeGames[g].capturedStones
                            = first.gameStates[g].capturedStones
                      /\ Len(first.activeGames[g].moves) = first.gameStates[g].moveNumber
                      /\ Rejected(second, g, userId)
                      /\ second.gameStates = first.gameStates
                      /\ second.activeGames = first.activeGames
                      /\ second.endTasks = first.endTasks

\* the last move of the game is a capturing placement, and the request that
\* made it, delivered once more, is rejected
C7_Witness ==
    \E g \in Managed : \E userId \in Seated(g) :
        LET game == activeGames[g]
            last == game.moves[Len(game.moves)]
        IN  /\ game.moves # <<>>
            /\ ~last.pass
            /\ last.color = SeatColor(g, userId)
            /\ game.capturedStones[last.color] > 0
            /\ Rejected(handleMove(Here, userId, g, last.x, last.y, FALSE), g, userId)
            /\ Untouched(handleMove(Here, userId, g, last.x, last.y, FALSE))

----------------------------------------------------------------------------
(* Finished games in the engine *)

Finished(g) == gameStates[g] # NoGame /\ gameStates[g].status = "finished"

\* C11: once the engine state of a game is marked finished by the second
\* consecutive pass, isLegalMove reports every placement as not legal and
\* applyMove and passMove change nothing.
C11_FinishedTerminal ==
    \A g \in GameIds :
        Finished(g) =>
            \A color \in Colors :
                /\ \A x \in Coords(gameStates, g), y \in Coords(gameStates, g) :
                      /\ ~isLegalMove(gameStates, g, x, y, color).ok
                      /\ applyMove(gameStates, g, x, y, color).gameStates = gameStates
                /\ passMove(gameStates, g, color).gameStates = gameStates

----------------------------------------------------------------------------
\* C12: a pass by the color that is not currentPlayer is answered by
\* handlePass as invalid with the reason code not_your_turn, the reason a
\* placement out of turn gets, and changes nothing in the game state.
C12_PassOutOfTurn ==
    \A g \in Live : \A color \in Colors :
        gameStates[g].currentPlayer # color =>
            /\ ~handlePass(gameStates, g, color).valid
            /\ handlePass(gameStates, g, color).reason = "not_your_turn"
            /\ handlePass(gameStates, g, color).gameStates = gameStates

----------------------------------------------------------------------------
(* Requests that name a game the server does not hold *)

Unknown == {g \in GameIds : activeGames[g] = NoGame /\ gameStates[g] = NoGame}

\* a reason that tells the caller the game does not exist
NotFoundReason(g, reason) == reason \in {"game_not_found", GameNotFoundMessage(g)}

\* the handler told the requester, on a socket, that the game does not exist
NotFoundReported(w, g, userId) ==
    /\ w.threw = "none"
    /\ \E i \in 1 .. Len(delivered(w.sent)) :
          /\ delivered(w.sent)[i].to = ToIdentityKey(userId)
          /\ \/ /\ delivered(w.sent)[i].type = "error"
                /\ delivered(w.sent)[i].data.error = "Game not found"
             \/ /\ delivered(w.sent)[i].type = "move_rejected"
                /\ NotFoundReason(g, delivered(w.sent)[i].data.reason)

\* C13: every operation addressed to an unknown game id (legality check,
\* placement, pass, game-end check, move request, resignation request)
\* reports a game-not-found condition to its caller or requester, raises no
\* unhandled error and is never a silent no-op.
C13_GameNotFound ==
    \A g \in Unknown :
        /\ \A color \in Colors :
              /\ ~isLegalMove(gameStates, g, 0, 0, color).ok
              /\ NotFoundReason(g, isLegalMove(gameStates, g, 0, 0, color).reason)
              /\ ~playMove(gameStates, g, color, 0, 0).valid
              /\ NotFoundReason(g, playMove(gameStates, g, color, 0, 0).reason)
              /\ ~handlePass(gameStates, g, color).valid
              /\ NotFoundReason(g, handlePass(gameStates, g, color).reason)
        /\ "reason" \in DOMAIN checkGameEnd(gameStates, g, [ended |-> TRUE])
        /\ \A userId \in Users :
              /\ NotFoundReported(handleMove(Here, userId, g, 0, 0, FALSE), g, userId)
              /\ NotFoundReported(handleMove(Here, userId, g, Null, Null, TRUE), g, userId)
              /\ NotFoundReported(handleResignation(Here, userId, g), g, userId)

----------------------------------------------------------------------------
(* Rejected move requests *)

RejectionReasons ==
    {"game_not_found", "invalid_coordinates", "position_occupied",
     "not_your_turn", "suicide_move", "ko_violation"}

\* handleMove did not take the request as a move of the game
Refused(w, g) == activeGames[g] = NoGame \/ ~Accepted(w, g)

\* C14: every rejected move request produces exactly one move-rejected
\* notification, which reaches the socket of the requester, nothing reaches
\* the opponent, and the reason is one of the six reason codes.
C14_RejectionDelivered ==
    \A g \in GameIds : \A userId \in Users : \A r \in Requests(g) :
        Refused(Answer(g, userId, r), g) =>
            /\ Answer(g, userId, r).threw = "none"
            /\ Len(delivered(Answer(g, userId, r).sent)) = 1
            /\ delivered(Answer(g, userId, r).sent)[1].to = ToIdentityKey(userId)
            /\ delivered(Answer(g, userId, r).sent)[1].type = "move_rejected"
            /\ delivered(Answer(g, userId, r).sent)[1].data.reason \in RejectionReasons

----------------------------------------------------------------------------
(* Requests of users who are not seated in the game they name *)

\* the handler told the requester, on a socket, of an error
ErrorReported(w, userId) ==
    /\ w.threw = "none"
    /\ \E i \in 1 .. Len(delivered(w.sent)) :
          /\ delivered(w.sent)[i].to = ToIdentityKey(userId)
          /\ delivered(w.sent)[i].type \in {"error", "move_rejected"}

\* C15: a move, pass or resignation request for a game in which the
\* requester is not one of the two seated players changes nothing of that
\* game (board, turn, status, winner) and the membership error is reported
\* to the requester.
C15_NonPlayer ==
    \A g \in Managed : \A userId \in Users \ Seated(g) :
        /\ \A r \in Requests(g) :
              /\ Untouched(Answer(g, userId, r))
              /\ ErrorReported(Answer(g, userId, r), userId)
        /\ Untouched(handleResignation(Here, userId, g))
        /\ ErrorReported(handleResignation(Here, userId, g), userId)

----------------------------------------------------------------------------
(* Resignation *)

Active(g) == activeGames[g] # NoGame /\ activeGames[g].status = "active"

\* endGame was entered last with this result
EndedWith(w, g, endResult) ==
    /\ Len(w.endTasks) = Len(endTasks) + 1
    /\ w.endTasks[Len(w.endTasks)].gameId = g
    /\ w.endTasks[Len(w.endTasks)].endResult = endResult

----------------------------------------------------------------------------
(* The end of a game when a collaborator does not answer *)

\* the awaits of endGame
AwaitedCalls ==
    {"updateRatings", "recordBlack", "recordWhite", "getBlackStats", "getWhiteStats"}

\* the call endGame awaits is never answered: the promise stays pending and
\* endGame stays at its await
EndGameNeverAnswered(i) ==
    /\ endTasks[i].pc \in AwaitedCalls
    /\ endTasks' = [endTasks EXCEPT ![i].pc = "unanswered"]
    /\ UNCHANGED <<gameStates, activeGames, ratingUpdates, statsRecords, issuedIds,
                   endReports, positions, matchVars>>

NextGMLive ==
    \/ NextGM
    \/ \E i \in 1 .. Len(endTasks) : EndGameNeverAnswered(i)

\* a call that is going to be answered is answered, and the event loop then
\* runs endGame on to its next await
EndGameStep(i) ==
    /\ i \in 1 .. Len(endTasks)
    /\ \/ EndGameRatingsUpdated(i)
       \/ EndGameResultRecorded(i)
       \/ EndGameStatsRead(i)
       \/ EndGameFinish(i)

SpecGMLive ==
    /\ Init
    /\ [][NextGMLive]_vars
    /\ \A i \in 1 .. MaxEndCalls : WF_vars(EndGameStep(i))

Ended(g) == activeGames[g] # NoGame /\ activeGames[g].status = "finished"

Released(g) == activeGames[g] = NoGame /\ gameStates[g] = NoGame

ReportedToBoth(g) ==
    \A seats \in Seats : \A k \in 1 .. 2 :
        \E j \in 1 .. Len(endReports[g]) : endReports[g][j].to = seats[k]

\* C17: after a game has reached its terminal condition (second consecutive
\* pass or resignation), both participants are eventually sent game_ended
\* and the game record and the engine state are released, whether or not
\* the rating and statistics collaborator answers.
C17_EndDelivered ==
    \A g \in ManagedIds : Ended(g) ~> (ReportedToBoth(g) /\ Released(g))

----------------------------------------------------------------------------
(* Independence of games *)

\* the handler left every game but g as it was
OthersKept(w, g) ==
    \A h \in GameIds \ {g} :
        /\ w.gameStates[h] = gameStates[h]
        /\ w.activeGames[h] = activeGames[h]

\* C18: an operation on one game id (accepted or rejected placement, pass,
\* resignation, the end of endGame with its cleanup) leaves the engine state
\* and the game record of every other game id unchanged.
C18_Independence ==
    \A g \in GameIds :
        /\ \A userId \in Users :
              /\ \A r \in Requests(g) :
                    \A o \in Outcomes(Answer(g, userId, r)) : OthersKept(o, g)
              /\ \A o \in Outcomes(handleResignation(Here, userId, g)) : OthersKept(o, g)
        /\ \A i \in 1 .. Len(endTasks) :
              endTasks[i].gameId = g /\ endTasks[i].pc = "getWhiteStats" =>
                  \A o \in Outcomes(endGameFinish(Here, endTasks[i])) : OthersKept(o, g)

----------------------------------------------------------------------------
(* Area scoring, stated on the board *)

\* the colors of the stones next to a set of points
Bordering(board, S) ==
    {c \in Colors : \E p \in S, q \in Points(BoardLength(board)) :
        Adjacent(p, q) /\ At(board, q) = c}

\* the maximal 4-connected sets of empty points
EmptyRegions(board) ==
    {GroupOf(board, p) : p \in {q \in Points(BoardLength(board)) : At(board, q) = Null}}

\* the stones of a color and the points of the maximal empty regions that
\* only this color borders
AreaOf(board, color) ==
    {p \in Points(BoardLength(board)) : At(board, p) = color}
    \cup UNION {R \in EmptyRegions(board) : Bordering(board, R) = {color}}

\* the score in half points
Area2(board, color) == 2 * Cardinality(AreaOf(board, color))

\* the result for black2 and white2 half points, komi counted in white2
ScoreOf(black2, white2, k) ==
    [black2 |-> black2,
     white2 |-> white2,
     winner |-> IF black2 > white2 THEN "black"
                ELSE IF white2 > black2 THEN "white" ELSE Null,
     scoreDiff2 |-> Abs(black2 - white2),
     komi2 |-> k]

\* komi a game may have been created with explicitly, in half points: none
\* and a whole point
Komi2Choices == {0, 2}

\* the engine with game g created with komi k
WithKomi2(g, k) == [gameStates EXCEPT ![g].komi2 = k]

----------------------------------------------------------------------------
(* Komi *)

\* komi in half points: 0.5 on 9 lines, 6.5 on 13 and on 19
Komi2Of(boardSize) == IF boardSize = 9 THEN 1 ELSE 13

\* the score after black and white have passed in turn
DoublePassScore(gs, g) ==
    scoreChinese(passMove(passMove(gs, g, "black").gameStates, g, "white").gameStates, g)

\* the engine after black has played p and white q
OneStoneEach(gs, g, p, q) ==
    applyMove(applyMove(gs, g, p.x, p.y, "black").gameStates,
              g, q.x, q.y, "white").gameStates

\* both stones were taken (the hash of the board did not collide with an
\* earlier one)
BothPlaced(gs, g, p, q) == OneStoneEach(gs, g, p, q)[g].moveNumber = 2

OnlyPasses(history) == \A i \in 1 .. Len(history) : IsPass(history[i])

\* C20: komi is set at creation from the board size (0.5 on 9x9, 6.5 on
\* 13x13 and 19x19) and never changes; an immediate double pass on an empty
\* 9x9 board scores black 0, white 0.5, winner white, scoreDiff 0.5; on
\* 19x19 one stone each and a double pass score black 1, white 7.5, winner
\* white.
C20_Komi ==
    /\ \A g \in Live : gameStates[g].komi2 = Komi2Of(gameStates[g].boardSize)
    /\ \A g \in Live :
          Len(gameStates[g].moveHistory) = 2 /\ OnlyPasses(gameStates[g].moveHistory) =>
              scoreChinese(gameStates, g) =
                  [black2 |-> 0, white2 |-> Komi2Of(gameStates[g].boardSize),
                   winner |-> "white",
                   scoreDiff2 |-> Komi2Of(gameStates[g].boardSize),
                   komi2 |-> Komi2Of(gameStates[g].boardSize)]
    /\ \A g \in EngineIds \ Live : \A draw \in TableDraws :
          /\ \A boardSize \in {9, 13, 19} :
                createGameState(gameStates, g, boardSize, draw)[g].komi2 = Komi2Of(boardSize)
          /\ DoublePassScore(createGameState(gameStates, g, 9, draw), g) =
                [black2 |-> 0, white2 |-> 1, winner |-> "white",
                 scoreDiff2 |-> 1, komi2 |-> 1]
          /\ \A p \in Points(Lines(19)) : \A q \in Points(Lines(19)) \ {p} :
                BothPlaced(createGameState(gameStates, g, 19, draw), g, p, q) =>
                    DoublePassScore(
                        OneStoneEach(createGameState(gameStates, g, 19, draw), g, p, q), g) =
                            [black2 |-> 2, white2 |-> 15, winner |-> "white",
                             scoreDiff2 |-> 13, komi2 |-> 13]

\* a 9x9 game that both players passed at once and that is scored 0 to 0.5
C20_Witness ==
    \E g \in Live :
        /\ gameStates[g].boardSize = 9
        /\ Len(gameStates[g].moveHistory) = 2
        /\ OnlyPasses(gameStates[g].moveHistory)
        /\ gameStates[g].status = "finished"
        /\ scoreChinese(gameStates, g).white2 = 1
        /\ scoreChinese(gameStates, g).black2 = 0
        /\ scoreChinese(gameStates, g).winner = "white"

----------------------------------------------------------------------------
----------------------------------------------------------------------------
(* The set of seen position fingerprints *)

Fingerprint(g, board) == hashToString(hashBoard(gameStates[g].hasher, board))

\* C22: previousHashes holds the fingerprint of the empty board from
\* creation on, never loses an element, gains the fingerprint of the
\* resulting board at every applied placement and is left as it is by
\* passes and by rejected moves; the fingerprint of the current board is
\* always a member.  With positions holding the empty board and the board
\* after every applied placement, and nothing else: previousHashes is the
\* set of the fingerprints of positions, and a pass leaves it as it is.
C22_SeenHashes ==
    \A g \in Live :
        /\ Fingerprint(g, createEmptyBoard(Lines(gameStates[g].boardSize)))
              \in gameStates[g].previousHashes
        /\ Fingerprint(g, gameStates[g].board) \in gameStates[g].previousHashes
        /\ gameStates[g].previousHashes
              = {Fingerprint(g, positions[g][i]) : i \in 1 .. Len(positions[g])}
        /\ \A color \in Colors :
              passMove(gameStates, g, color).gameStates[g].previousHashes
                  = gameStates[g].previousHashes

\* three placements, then a pass: four boards have been seen
C22_Witness ==
    \E g \in Live :
        /\ Len(positions[g]) >= 4
        /\ Cardinality(gameStates[g].previousHashes) >= 4
        /\ IsPass(gameStates[g].moveHistory[Len(gameStates[g].moveHistory)])

----------------------------------------------------------------------------
(* WebSocketHandler.connections and MatchmakingService *)

\* an identity key: the prefix 'a:' (account) or 'g:' (guest), then the id
IdentityKey(prefix, id) == [prefix |-> prefix, id |-> id]

\* the sockets that connect: a guest in two tabs, a second guest, and an
\* account whose id the second guest has sent as its guestId
Sockets == {[socket |-> n] : n \in 1 .. 4}

\* ws.identityKey, as the session cookie or the hello message sets it
identityKeyOf(ws) ==
    CASE ws.socket = 1 -> IdentityKey("g", "u1")
      [] ws.socket = 2 -> IdentityKey("g", "u1")
      [] ws.socket = 3 -> IdentityKey("g", "u2")
      [] ws.socket = 4 -> IdentityKey("a", "u2")

IdentityKeys == {identityKeyOf(ws) : ws \in Sockets}

\* Map.set and Map.delete
MapSet(map, key, value) ==
    [k \in DOMAIN map \cup {key} |-> IF k = key THEN value ELSE map[k]]
MapDelete(map, keys) == [k \in DOMAIN map \ keys |-> map[k]]

\* getConnection on an identity key string, over the connections map given
getConnectionIn(conns, identityKey) ==
    IF identityKey \in DOMAIN conns THEN conns[identityKey] ELSE NoSocket

\* sendToUser over the connections map given: nothing is sent without a socket
sendToUserIn(conns, identityKey, type, data) ==
    IF getConnectionIn(conns, identityKey) = NoSocket THEN NoMessages
    ELSE sendToUser(identityKey, type, data)

\* the clock moves on by half a second or by a minute at a time
ClockSteps == {500, 60000}
\* the steps the clock has made to show the time given
advances(time) == (time \div 60000) + ((time % 60000) \div 500)

\* Array.findIndex on the identity key, counted from 1; 0 for "not found"
findIndex(queue, identityKey) ==
    LET found == {i \in 1 .. Len(queue) : queue[i].identityKey = identityKey}
    IN  IF found = {} THEN 0 ELSE CHOOSE i \in found : \A j \in found : i <= j

\* Array.splice(index, 1)
splice(queue, index) ==
    SubSeq(queue, 1, index - 1) \o SubSeq(queue, index + 1, Len(queue))

entryKept(queue, identityKey) == queue

\* the queue without the first entry of the identity key
withoutEntry(queue, identityKey) ==
    IF findIndex(queue, identityKey) = 0 THEN queue
    ELSE splice(queue, findIndex(queue, identityKey))

\* the place of a board size in the queues map, 0 when it has no queue
queueIndex(qs, boardSize) ==
    LET found == {i \in 1 .. Len(qs) : qs[i].boardSize = boardSize}
    IN  IF found = {} THEN 0 ELSE CHOOSE i \in found : TRUE

\* what the service works on and what a call leaves behind: matched holds the
\* pairs handed to createMatch, sent the messages sent before the call
\* returns, later those sent once createMatch resumes after its await
Matchmaking(qs, users, w) ==
    [queues |-> qs, queuedUsers |-> users, game |-> w, matched |-> <<>>,
     sent |-> NoMessages, later |-> NoMessages]

\* the random choices of a match: the colour draw, the game id, the Zobrist
\* table (the matchmaking runs keep to the table without repeated numbers)
Chances ==
    [coin : BOOLEAN, gameId : ManagedIds, draw : {"distinct"}]

\* white is given to the player that already has black
whiteAlsoBlack(blackPlayer, player1, player2) == blackPlayer

\* blackPlayer === player1 ? player2 : player1
whiteOf(blackPlayer, player1, player2) ==
    IF blackPlayer = player1 THEN player2 ELSE player1

createMatch(m, player1, player2, boardSize, conns, time, chance) ==
    LET blackPlayer == IF chance.coin THEN player1 ELSE player2
        whitePlayer == whiteOf(blackPlayer, player1, player2)
        blackUserId == blackPlayer.identityKey.id
        whiteUserId == whitePlayer.identityKey.id
    IN  [m EXCEPT
            !.game = createGame(m.game, chance.gameId, blackUserId, whiteUserId,
                                boardSize, chance.draw),
            !.matched = Append(@, [player1 |-> player1, player2 |-> player2,
                                   boardSize |-> boardSize, gameId |-> chance.gameId,
                                   at |-> time,
                                   socket1 |-> getConnectionIn(conns, player1.identityKey),
                                   socket2 |-> getConnectionIn(conns, player2.identityKey)]),
            !.later = @ \o sendToUserIn(conns, blackPlayer.identityKey, "match_found",
                              [gameId |-> chance.gameId, opponent |-> whiteUserId,
                               boardSize |-> boardSize, color |-> "black"])
                        \o sendToUserIn(conns, whitePlayer.identityKey, "match_found",
                              [gameId |-> chance.gameId, opponent |-> blackUserId,
                               boardSize |-> boardSize, color |-> "white"])]

differentEntries(entry1, entry2) == TRUE

\* the test the nested loops of processQueues put to two entries
differentUsers(entry1, entry2) == entry1.identityKey # entry2.identityKey

\* the first two entries of different identity keys, as the nested loops of
\* processQueues find them; <<>> when there are none
firstPair(queue) ==
    LET pairs == {p \in (1 .. Len(queue)) \X (1 .. Len(queue)) :
                      /\ p[1] < p[2]
                      /\ differentUsers(queue[p[1]], queue[p[2]])}
    IN  IF pairs = {} THEN <<>>
        ELSE CHOOSE p \in pairs :
                 \A q \in pairs : p[1] < q[1] \/ (p[1] = q[1] /\ p[2] <= q[2])

\* no wait is ever long enough
waitedNever(timeInQueue1, timeInQueue2) == FALSE

\* the two waits that processQueues weighs against the half second
waitedEnough(timeInQueue1, timeInQueue2) ==
    (IF timeInQueue1 >= timeInQueue2 THEN timeInQueue1 ELSE timeInQueue2) >= 500

socketAssumed(socket) == FALSE

\* !socket, as processQueues tests what getConnection returned
socketMissing(socket) == socket = NoSocket

\* the matched entries stay in the queue
matchedStay(queue, player1, player2) == queue

\* the queue after processQueues has spliced the two matched entries out
withoutMatched(queue, player1, player2) ==
    withoutEntry(withoutEntry(queue, player1.identityKey), player2.identityKey)

\* processQueues, from the queue at place i on
RECURSIVE processQueuesFrom(_, _, _, _, _)
processQueuesFrom(m, i, conns, time, chance) ==
    IF i > Len(m.queues) THEN m
    ELSE
    LET boardSize == m.queues[i].boardSize
        queue == m.queues[i].queue
        pair == firstPair(queue)
    IN  IF Len(queue) < 2 \/ pair = <<>>
        THEN processQueuesFrom(m, i + 1, conns, time, chance)
        ELSE
        LET player1 == queue[pair[1]]
            player2 == queue[pair[2]]
            socket1 == getConnectionIn(conns, player1.identityKey)
            socket2 == getConnectionIn(conns, player2.identityKey)
            missing == {p.identityKey : p \in {q \in {player1, player2} :
                            socketMissing(getConnectionIn(conns, q.identityKey))}}
            kept1 == IF socketMissing(socket1)
                     THEN withoutEntry(queue, player1.identityKey) ELSE queue
            kept2 == IF socketMissing(socket2)
                     THEN withoutEntry(kept1, player2.identityKey) ELSE kept1
        IN  IF socketMissing(socket1) \/ socketMissing(socket2)
            THEN processQueuesFrom(
                     [m EXCEPT !.queues[i].queue = kept2,
                               !.queuedUsers = MapDelete(@, missing)],
                     i + 1, conns, time, chance)
            ELSE IF waitedEnough(time - player1.joinedAt, time - player2.joinedAt)
            THEN [createMatch(m, player1, player2, boardSize, conns, time, chance)
                     EXCEPT !.queues[i].queue = withoutMatched(queue, player1, player2),
                            !.queuedUsers =
                                MapDelete(@, {player1.identityKey, player2.identityKey})]
            ELSE processQueuesFrom(m, i + 1, conns, time, chance)

processQueues(m, conns, time, chance) == processQueuesFrom(m, 1, conns, time, chance)

\* the entry joinQueue pushes
queueEntry(identityKey, boardSize, time) ==
    [identityKey |-> identityKey, socketId |-> identityKey, boardSize |-> boardSize,
     joinedAt |-> time]

\* the position the acknowledgement of a repeated join reports
positionReported(queue, identityKey) == Len(queue)

stayedInOtherQueues(qs, boardSize, identityKey) == qs

\* the queues after joinQueue has taken the participant out of the queues of
\* the other board sizes
leftOtherQueues(qs, boardSize, identityKey) ==
    [j \in 1 .. Len(qs) |->
        IF qs[j].boardSize # boardSize
        THEN [qs[j] EXCEPT !.queue = withoutEntry(@, identityKey)]
        ELSE qs[j]]

\* joinQueue once the queue of the board size exists
joinQueueAt(m, i, conns, identityKey, boardSize, time, chance) ==
    LET queue == m.queues[i].queue
    IN  IF findIndex(queue, identityKey) # 0
        THEN [m EXCEPT !.sent = sendToUserIn(conns, identityKey, "queue_joined",
                          [boardSize |-> boardSize,
                           queuePosition |-> positionReported(queue, identityKey),
                           in_queue |-> TRUE, status |-> "already_in_queue"])]
        ELSE
        LET others == leftOtherQueues(m.queues, boardSize, identityKey)
            pushed == [others EXCEPT ![i].queue =
                          Append(@, queueEntry(identityKey, boardSize, time))]
            queueSize == Len(pushed[i].queue)
            processed ==
                processQueues(
                    [m EXCEPT !.queues = pushed,
                              !.queuedUsers = MapSet(@, identityKey,
                                  [boardSize |-> boardSize, joinedAt |-> time,
                                   socketId |-> identityKey])],
                    conns, time, chance)
        IN  [processed EXCEPT
                !.sent = @ \o sendToUserIn(conns, identityKey, "queue_joined",
                              [boardSize |-> boardSize, queuePosition |-> queueSize,
                               in_queue |-> FALSE])]

joinQueue(m, conns, ws, boardSize, time, chance) ==
    IF boardSize \notin {9, 13, 19}
    THEN [m EXCEPT !.sent = sendError(ws, "Invalid board size. Must be 9, 13, or 19.")]
    ELSE IF queueIndex(m.queues, boardSize) = 0
    THEN joinQueueAt([m EXCEPT !.queues =
                          Append(@, [boardSize |-> boardSize, queue |-> <<>>])],
                     Len(m.queues) + 1, conns, identityKeyOf(ws), boardSize, time, chance)
    ELSE joinQueueAt(m, queueIndex(m.queues, boardSize), conns, identityKeyOf(ws),
                     boardSize, time, chance)

\* the messages of a Join in the order they are sent: those of createGame,
\* called from the scan inside joinQueue, then the acknowledgement joinQueue
\* sends when the scan has returned, then those createMatch sends when it
\* resumes after its await
sendOrder(m) == m.game.sent \o m.sent \o m.later

leaveQueue(m, conns, identityKey) ==
    LET found == SelectSeq(m.queues, LAMBDA q : findIndex(q.queue, identityKey) # 0)
    IN  [m EXCEPT
            !.queues = [j \in 1 .. Len(m.queues) |->
                           [m.queues[j] EXCEPT !.queue = withoutEntry(@, identityKey)]],
            !.queuedUsers = MapDelete(@, {identityKey}),
            !.sent = IF getConnectionIn(conns, identityKey) = NoSocket THEN NoMessages
                     ELSE [j \in 1 .. Len(found) |->
                              Message(identityKey, "queue_left",
                                      [boardSize |-> found[j].boardSize])]]

removeUser(m, conns, identityKey) == leaveQueue(m, conns, identityKey)

maxAge == 60000

tooOldAfterHalfSecond(age) == age > 500

\* age > maxAge, as cleanupStaleEntries tests the age of an entry
tooOld(age) == age > maxAge

\* the entries cleanupStaleEntries removes
isStale(entry, conns, time) ==
    \/ getConnectionIn(conns, entry.identityKey) = NoSocket
    \/ tooOld(time - entry.joinedAt)

cleanupStaleEntries(m, conns, time) ==
    LET stale == {identityKey \in IdentityKeys :
                     \E j \in 1 .. Len(m.queues) :
                         \E e \in 1 .. Len(m.queues[j].queue) :
                             /\ m.queues[j].queue[e].identityKey = identityKey
                             /\ isStale(m.queues[j].queue[e], conns, time)}
    IN  [m EXCEPT
            !.queues = [j \in 1 .. Len(m.queues) |->
                           [m.queues[j] EXCEPT !.queue =
                               SelectSeq(@, LAMBDA entry : ~isStale(entry, conns, time))]],
            !.queuedUsers = MapDelete(@, stale)]

MatchmakingHere == Matchmaking(queues, queuedUsers, Here)

\* the model stops the server when createGame has given out every game id
UnderMatchCap == ManagedIds \ issuedIds # {}

\* the state a call of the service leaves behind
MatchmakingBecomes(m) ==
    /\ UnderMatchCap
    /\ queues' = m.queues
    /\ queuedUsers' = m.queuedUsers
    /\ matches' = matches \o m.matched
    /\ \A i \in 1 .. Len(m.matched) : m.matched[i].gameId \notin issuedIds
    /\ issuedIds' = issuedIds \cup {m.matched[i].gameId : i \in 1 .. Len(m.matched)}
    /\ Becomes(m.game)
    /\ UNCHANGED <<ratingUpdates, statsRecords>>

\* a socket opens and registers under its identity key (on connection for a
\* session cookie, on the hello message for a guest)
Connect(ws) ==
    /\ UnderMatchCap
    /\ ws \notin openSockets
    /\ openSockets' = openSockets \cup {ws}
    /\ wsConnections' = MapSet(wsConnections, identityKeyOf(ws), ws)
    /\ UNCHANGED <<gameStates, managerVars, positions, queues, queuedUsers, now, matches>>

\* handleDisconnection on the close of a socket
Disconnect(ws) ==
    /\ ws \in openSockets
    /\ MatchmakingBecomes(removeUser(MatchmakingHere, wsConnections, identityKeyOf(ws)))
    /\ wsConnections' = MapDelete(wsConnections, {identityKeyOf(ws)})
    /\ openSockets' = openSockets \ {ws}
    /\ UNCHANGED now

\* handleMessage on join_queue
JoinQueue(ws, boardSize, chance) ==
    /\ ws \in openSockets
    /\ MatchmakingBecomes(joinQueue(MatchmakingHere, wsConnections, ws, boardSize,
                                    now, chance))
    /\ UNCHANGED <<wsConnections, openSockets, now>>

\* handleMessage on leave_queue
LeaveQueue(ws) ==
    /\ ws \in openSockets
    /\ MatchmakingBecomes(leaveQueue(MatchmakingHere, wsConnections, identityKeyOf(ws)))
    /\ UNCHANGED <<wsConnections, openSockets, now>>

\* the matchmaking interval fires
ProcessQueues(chance) ==
    /\ MatchmakingBecomes(processQueues(MatchmakingHere, wsConnections, now, chance))
    /\ UNCHANGED <<wsConnections, openSockets, now>>

\* the cleanup interval fires
CleanupStaleEntries ==
    /\ MatchmakingBecomes(cleanupStaleEntries(MatchmakingHere, wsConnections, now))
    /\ UNCHANGED <<wsConnections, openSockets, now>>

\* time passes
AdvanceClock(step) ==
    /\ UnderMatchCap
    /\ advances(now) < MaxAdvances
    /\ now' = now + step
    /\ UNCHANGED <<gameStates, managerVars, positions, queues, queuedUsers,
                   wsConnections, openSockets, matches>>

\* the board sizes a join_queue message asks for; 7 is not a size of the game
AskedSizes == BoardSizes \cup {7}

NextMM ==
    \/ \E ws \in Sockets : Connect(ws)
    \/ \E ws \in Sockets : Disconnect(ws)
    \/ \E ws \in Sockets, boardSize \in AskedSizes, chance \in Chances :
          JoinQueue(ws, boardSize, chance)
    \/ \E ws \in Sockets : LeaveQueue(ws)
    \/ \E chance \in Chances : ProcessQueues(chance)
    \/ CleanupStaleEntries
    \/ \E step \in ClockSteps : AdvanceClock(step)

SpecMM == Init /\ [][NextMM]_vars

----------------------------------------------------------------------------
(* Claims on the matchmaking queue *)

\* C23: the matcher never pairs a queue entry with itself or with another
\* entry of the same participant: every match formed has two different
\* identity keys, whatever joins went before and from whichever of a
\* participant's connections, and the pair the scan picks has two different
\* identity keys even in a queue that holds every participant twice
C23_NoSelfMatch ==
    /\ \A i \in 1 .. Len(matches) :
          matches[i].player1.identityKey # matches[i].player2.identityKey
    /\ \A j \in 1 .. Len(queues) :
          LET twice == queues[j].queue \o queues[j].queue
              pair == firstPair(twice)
          IN  pair # <<>> =>
                  /\ pair[1] # pair[2]
                  /\ twice[pair[1]].identityKey # twice[pair[2]].identityKey

\* a match is formed for a participant that has two connections open, while
\* another participant waits in another queue
C23_Witness ==
    /\ Len(matches) = 1
    /\ IdentityKey("g", "u1") \in {matches[1].player1.identityKey,
                                  matches[1].player2.identityKey}
    /\ {ws \in openSockets : identityKeyOf(ws) = IdentityKey("g", "u1")}
           = {[socket |-> 1], [socket |-> 2]}
    /\ \E j \in 1 .. Len(queues) : Len(queues[j].queue) = 1

\* C24: every game the game manager has created seats two different
\* participants: the stored blackPlayerId differs from the stored
\* whitePlayerId, whatever identifiers createGame was called with
C24_DistinctSeats ==
    \A g \in GameIds :
        activeGames[g] # NoGame =>
            activeGames[g].blackPlayerId # activeGames[g].whitePlayerId

\* the places (queue, index) at which the queues hold an entry of the identity key
EntriesOf(qs, identityKey) ==
    {place \in UNION {{<<j, e>> : e \in 1 .. Len(qs[j].queue)} : j \in 1 .. Len(qs)} :
        qs[place[1]].queue[place[2]].identityKey = identityKey}

\* the board sizes for which the identity key is queued
QueuedSizes(qs, identityKey) ==
    {qs[place[1]].boardSize : place \in EntriesOf(qs, identityKey)}

\* C25: in every reachable state each participant has at most one entry
\* across the queues of all board sizes, and no queue is longer than the
\* number of participants; whatever join comes next, the participant that
\* joins is afterwards in no queue but that of the size asked for
C25_OneEntry ==
    /\ \A identityKey \in IdentityKeys :
          Cardinality(EntriesOf(queues, identityKey)) <= 1
    /\ \A j \in 1 .. Len(queues) : Len(queues[j].queue) <= Cardinality(IdentityKeys)
    /\ \A ws \in openSockets, boardSize \in BoardSizes, chance \in Chances :
          QueuedSizes(joinQueue(MatchmakingHere, wsConnections, ws, boardSize,
                                now, chance).queues, identityKeyOf(ws))
              \subseteq {boardSize}

\* queues for two board sizes are in use: a participant that joined after
\* half a second waits for board size 13 only, another waits for board size 9
C25_Witness ==
    /\ Len(queues) = 2
    /\ queues[1].boardSize = 9
    /\ queues[1].queue # <<>>
    /\ \E e \in 1 .. Len(queues[2].queue) :
          /\ queues[2].queue[e].joinedAt = 500
          /\ QueuedSizes(queues, queues[2].queue[e].identityKey) = {13}

\* the entry under which the identity key waits for the board size, as a set
WaitingEntry(qs, boardSize, identityKey) ==
    {qs[place[1]].queue[place[2]] : place \in
        {p \in EntriesOf(qs, identityKey) : qs[p[1]].boardSize = boardSize}}

\* the call changed neither the queues nor queuedUsers and formed no match
NothingQueuedOrMatched(m) ==
    /\ m.queues = queues
    /\ m.queuedUsers = queuedUsers
    /\ m.matched = <<>>

\* C26: a join by a participant that waits for that very board size adds no
\* entry and leaves the queues, the entry's enqueue time included, as they
\* are; it is answered with one queue_joined message, not an error, whose
\* queuePosition is the place of the participant's entry in its queue
C26_JoinIdempotent ==
    \A ws \in openSockets, boardSize \in BoardSizes, chance \in Chances :
        WaitingEntry(queues, boardSize, identityKeyOf(ws)) # {} =>
            LET m == joinQueue(MatchmakingHere, wsConnections, ws, boardSize, now, chance)
                queue == queues[queueIndex(queues, boardSize)].queue
            IN  /\ NothingQueuedOrMatched(m)
                /\ Len(m.sent \o m.later) = 1
                /\ m.sent[1].type = "queue_joined"
                /\ m.sent[1].to = identityKeyOf(ws)
                /\ m.sent[1].data.queuePosition = findIndex(queue, identityKeyOf(ws))

\* C27: after a leave the participant is in no queue and not in queuedUsers,
\* and the entries of the others are as before; a second leave changes
\* nothing more; the leave of a participant that is not queued changes
\* nothing and sends nothing; no leave is answered with an error
C27_LeaveIdempotent ==
    \A ws \in openSockets :
        LET identityKey == identityKeyOf(ws)
            m == leaveQueue(MatchmakingHere, wsConnections, identityKey)
            again == leaveQueue(m, wsConnections, identityKey)
        IN  /\ EntriesOf(m.queues, identityKey) = {}
            /\ identityKey \notin DOMAIN m.queuedUsers
            /\ \A other \in IdentityKeys \ {identityKey} :
                  /\ {m.queues[p[1]].queue[p[2]] : p \in EntriesOf(m.queues, other)}
                       = {queues[p[1]].queue[p[2]] : p \in EntriesOf(queues, other)}
                  /\ other \in DOMAIN m.queuedUsers <=> other \in DOMAIN queuedUsers
            /\ again.queues = m.queues
            /\ again.queuedUsers = m.queuedUsers
            /\ again.sent = NoMessages
            /\ EntriesOf(queues, identityKey) = {} =>
                  /\ m.queues = queues
                  /\ m.queuedUsers = queuedUsers
                  /\ m.sent = NoMessages
            /\ \A i \in 1 .. Len(m.sent) : m.sent[i].type = "queue_left"

\* one connected participant waits behind another, a third is connected and
\* waits nowhere
C27_Witness ==
    /\ \E j \in 1 .. Len(queues) :
          /\ Len(queues[j].queue) = 2
          /\ getConnectionIn(wsConnections, queues[j].queue[2].identityKey) \in openSockets
    /\ \E ws \in openSockets : EntriesOf(queues, identityKeyOf(ws)) = {}

\* C28: a match is formed only between two entries that have each been
\* queued for at least 500 ms when it is formed
C28_MinimumDwell ==
    \A i \in 1 .. Len(matches) :
        /\ matches[i].at - matches[i].player1.joinedAt >= 500
        /\ matches[i].at - matches[i].player2.joinedAt >= 500

\* the identity keys that have an entry in the queues
QueuedKeys(qs) == {identityKey \in IdentityKeys : EntriesOf(qs, identityKey) # {}}

\* the identity key has a registered transport: an open socket of its own
\* under its key in the connections map
Registered(identityKey) ==
    /\ getConnectionIn(wsConnections, identityKey) \in openSockets
    /\ identityKeyOf(getConnectionIn(wsConnections, identityKey)) = identityKey

\* C29: both participants of every match formed had a registered transport
\* when it was formed; a scan that finds an entry of its pair without a
\* transport matches nothing from that queue and, unless it has ended at a
\* match in an earlier queue, removes that entry; after a cleanup no entry
\* without a registered transport is left
C29_NoMatchWithoutTransport ==
    /\ \A i \in 1 .. Len(matches) :
          /\ matches[i].socket1 # NoSocket
          /\ matches[i].socket2 # NoSocket
    /\ \A identityKey \in DOMAIN wsConnections : Registered(identityKey)
    /\ \A chance \in Chances :
          LET m == processQueues(MatchmakingHere, wsConnections, now, chance)
          IN  \A j \in 1 .. Len(queues) :
                  LET queue == queues[j].queue
                      pair == firstPair(queue)
                      found == IF pair = <<>> THEN {}
                               ELSE {queue[pair[1]].identityKey, queue[pair[2]].identityKey}
                      lost == {identityKey \in found : ~Registered(identityKey)}
                  IN  /\ \A i \in 1 .. Len(m.matched) :
                            /\ Registered(m.matched[i].player1.identityKey)
                            /\ Registered(m.matched[i].player2.identityKey)
                            /\ lost # {} => m.matched[i].boardSize # queues[j].boardSize
                      /\ (\A i \in 1 .. Len(m.matched) :
                              queueIndex(queues, m.matched[i].boardSize) > j)
                             => lost \cap QueuedKeys(m.queues) = {}
    /\ \A identityKey \in QueuedKeys(cleanupStaleEntries(MatchmakingHere, wsConnections,
                                                         now).queues) :
          Registered(identityKey)

\* two participants have waited half a second in one queue, one of them
\* without a registered transport while a socket of its identity is open
C29_Witness ==
    \E j \in 1 .. Len(queues) :
        /\ Len(queues[j].queue) = 2
        /\ \A e \in 1 .. 2 : now - queues[j].queue[e].joinedAt >= 500
        /\ Registered(queues[j].queue[1].identityKey)
        /\ ~Registered(queues[j].queue[2].identityKey)
        /\ \E ws \in openSockets : identityKeyOf(ws) = queues[j].queue[2].identityKey

\* the step takes the identity key's entry out of the queue of the board size
LeavesQueue(identityKey, boardSize) ==
    /\ boardSize \in QueuedSizes(queues, identityKey)
    /\ boardSize \notin QueuedSizes(queues', identityKey)

\* the step forms a match with the identity key
MatchedNow(identityKey) ==
    /\ Len(matches') = Len(matches) + 1
    /\ identityKey \in {matches'[Len(matches')].player1.identityKey,
                       matches'[Len(matches')].player2.identityKey}

\* the step is the participant's leave, or its join for another board size
Withdraws(identityKey, boardSize) ==
    \E ws \in Sockets :
        /\ identityKeyOf(ws) = identityKey
        /\ \/ LeaveQueue(ws)
           \/ \E other \in AskedSizes \ {boardSize}, chance \in Chances :
                  JoinQueue(ws, other, chance)

\* after the step the participant has no registered transport: a socket of
\* its identity has closed in the step, or it had none before
TransportLost(identityKey) ==
    getConnectionIn(wsConnections', identityKey) = NoSocket

\* the step is a cleanup and the entry was queued more than 60 s before
AgedOut(identityKey, boardSize) ==
    /\ CleanupStaleEntries
    /\ \E entry \in WaitingEntry(queues, boardSize, identityKey) :
          now - entry.joinedAt > 60000

----------------------------------------------------------------------------
(* Further claims on the engine *)

\* what a pass leaves alone: the board, the capture counts and the set of
\* seen positions
PassFrame(before, after) ==
    /\ after.board = before.board
    /\ after.capturedStones = before.capturedStones
    /\ after.previousHashes = before.previousHashes

\* C35: the pass that brings consecutivePasses to 2 ends the game and leaves
\* currentPlayer and moveNumber as they were; a pass that does not end the game
\* flips currentPlayer and adds one to moveNumber; no pass changes the board,
\* the capture counts or the set of seen positions
C35_EndingPassFrame ==
    \A g \in Live : \A color \in Colors :
        (~passMove(gameStates, g, color).threw) =>
            /\ PassFrame(gameStates[g], passMove(gameStates, g, color).gameStates[g])
            /\ (gameStates[g].consecutivePasses + 1 = 2) =>
                  /\ passMove(gameStates, g, color).ended
                  /\ passMove(gameStates, g, color).gameStates[g].currentPlayer =
                        gameStates[g].currentPlayer
                  /\ passMove(gameStates, g, color).gameStates[g].moveNumber =
                        gameStates[g].moveNumber
            /\ (~passMove(gameStates, g, color).ended) =>
                  /\ passMove(gameStates, g, color).gameStates[g].currentPlayer =
                        Opponent(gameStates[g].currentPlayer)
                  /\ passMove(gameStates, g, color).gameStates[g].moveNumber =
                        gameStates[g].moveNumber + 1

\* a game every stone of which belongs to a group with a liberty
AllGroupsBreathe(board) ==
    \A p \in Points(BoardLength(board)) :
        At(board, p) # Null => LibertiesOf(board, GroupOf(board, p)) # {}

\* C36: in every reachable state of a game, after any sequence of accepted
\* and rejected placements and passes, every group of same-coloured stones on
\* the board has at least one liberty
C36_LibertyInvariant ==
    \A g \in Live : AllGroupsBreathe(gameStates[g].board)

\* a placement has captured, and stones of both colours stand on the board,
\* one of them in a group of two
C36_Witness ==
    \E g \in Live :
        /\ gameStates[g].capturedStones.black + gameStates[g].capturedStones.white > 0
        /\ \E p, q \in Grid(g) :
              /\ At(gameStates[g].board, p) = "black"
              /\ At(gameStates[g].board, q) = "white"
              /\ Cardinality(GroupOf(gameStates[g].board, p)) >= 2

\* the stones of a colour on a board
StonesOf(board, color) == {p \in Points(BoardLength(board)) : At(board, p) = color}

\* the placements of a colour in a history, and what they took off the board
PlacementsOf(history, color) ==
    {i \in 1 .. Len(history) : ~IsPass(history[i]) /\ history[i].color = color}

RECURSIVE CapturesIn(_, _, _)
CapturesIn(history, color, i) ==
    IF i = 0 THEN 0
    ELSE CapturesIn(history, color, i - 1) +
         (IF i \in PlacementsOf(history, color) THEN history[i].captures ELSE 0)

\* an applied placement adds to the placing colour's counter the number of
\* stones it took off the board, and to the other colour's counter nothing
CountsPlacement(g, p, color) ==
    LET result == applyMove(gameStates, g, p.x, p.y, color)
        removed == Cardinality(CapturedBy(gameStates[g].board, p, color))
    IN  (~result.threw) =>
            /\ Len(result.captures) = removed
            /\ SeqToSet(result.captures) = CapturedBy(gameStates[g].board, p, color)
            /\ result.gameStates[g].capturedStones[color] =
                  gameStates[g].capturedStones[color] + removed
            /\ result.gameStates[g].capturedStones[Opponent(color)] =
                  gameStates[g].capturedStones[Opponent(color)]

----------------------------------------------------------------------------
(* The game manager's record and the engine's state of the same game *)

\* the record of a game agrees with the engine's state of it
InStep(game, state) ==
    /\ state # NoGame
    /\ game.currentTurn = state.currentPlayer
    /\ Len(game.moves) = state.moveNumber
    /\ game.boardState = state.board
    /\ game.capturedStones = state.capturedStones

\* C38: after every handled request the record the game manager keeps of a
\* game agrees with the engine's state of the same game in turn, number of
\* moves, board and capture counts, and the engine holds a state exactly for
\* the games the manager holds; a request handleMove does not record as a move
\* changes neither the manager's records nor the engine's states
C38_RecordFollowsEngine ==
    /\ \A g \in GameIds : (activeGames[g] = NoGame) = (gameStates[g] = NoGame)
    /\ \A g \in Managed :
          /\ InStep(activeGames[g], gameStates[g])
          /\ \A userId \in Users : \A r \in Requests(g) :
                IF Accepted(Answer(g, userId, r), g)
                THEN InStep(Answer(g, userId, r).activeGames[g],
                            Answer(g, userId, r).gameStates[g])
                ELSE /\ Answer(g, userId, r).gameStates = gameStates
                     /\ Answer(g, userId, r).activeGames = activeGames

\* the record of a game holds three moves, the last of them a capture, in
\* step with the engine
C38_Witness ==
    \E g \in Managed :
        /\ Len(activeGames[g].moves) = 3
        /\ activeGames[g].capturedStones.black = 1
        /\ gameStates[g].capturedStones.black = 1
        /\ activeGames[g].status = "active"
        /\ \E p \in Grid(g) : At(activeGames[g].boardState, p) = Null

----------------------------------------------------------------------------
(* Claims on matches and the games they start *)

\* the participants of a match
PlayersOf(match) == {match.player1.identityKey, match.player2.identityKey}

\* the game of a match has not ended
NotEnded(match) ==
    /\ activeGames[match.gameId] # NoGame
    /\ activeGames[match.gameId].status = "active"

\* the game ids createGame gives out next: never one it has given out
FreshIds ==
    IF ManagedIds \ issuedIds # {} THEN ManagedIds \ issuedIds ELSE GameIds \ issuedIds

\* the random choices open to the next match
FreshChances == [coin : BOOLEAN, gameId : FreshIds, draw : {"distinct"}]

\* C31: a participant who is a player of a game that has not ended is never
\* matched into another game: a Join of such a participant, from any of its
\* open sockets and for any board size, forms no match that seats it again
C31_OneGameAtATime ==
    \A ws \in openSockets, boardSize \in BoardSizes, chance \in FreshChances :
        \A i \in 1 .. Len(matches) :
            (NotEnded(matches[i]) /\ identityKeyOf(ws) \in PlayersOf(matches[i])) =>
                \A k \in 1 .. Len(joinQueue(MatchmakingHere, wsConnections, ws,
                                            boardSize, now, chance).matched) :
                    identityKeyOf(ws) \notin
                        PlayersOf(joinQueue(MatchmakingHere, wsConnections, ws,
                                            boardSize, now, chance).matched[k])

\* the identity keys that have an entry in some queue
Waiting(qs) ==
    UNION {{qs[j].queue[e].identityKey : e \in 1 .. Len(qs[j].queue)} :
              j \in 1 .. Len(qs)}

\* the participants of the matches a call has formed
Paired(m) == UNION {PlayersOf(m.matched[k]) : k \in 1 .. Len(m.matched)}

\* what a call that formed a match leaves behind, as the next call finds it
After(m) == Matchmaking(m.queues, m.queuedUsers, m.game)

\* the times of a later scan or Join
LaterTimes == {now, now + 500, now + 60000}

\* a call has formed at most one match, has created its game and has taken
\* both entries out of the queues and out of queuedUsers; a scan or a Join of
\* another participant that comes next, at once or later, pairs neither of the
\* two again
MatchedAndGone(m) ==
    /\ Len(m.matched) <= 1
    /\ \A k \in 1 .. Len(m.matched) :
          /\ m.game.activeGames[m.matched[k].gameId] # NoGame
          /\ m.game.activeGames[m.matched[k].gameId].status = "active"
          /\ m.matched[k].player1 # m.matched[k].player2
    /\ Paired(m) \cap Waiting(m.queues) = {}
    /\ Paired(m) \cap DOMAIN m.queuedUsers = {}
    /\ m.matched # <<>> =>
          \A time \in LaterTimes, coin \in BOOLEAN :
              /\ Paired(m) \cap
                    Paired(processQueues(After(m), wsConnections, time,
                               [coin |-> coin, gameId |-> "g2", draw |-> "distinct"])) = {}
              /\ \A ws \in openSockets, boardSize \in BoardSizes :
                    identityKeyOf(ws) \notin Paired(m) =>
                        Paired(m) \cap
                            Paired(joinQueue(After(m), wsConnections, ws, boardSize, time,
                                       [coin |-> coin, gameId |-> "g2",
                                        draw |-> "distinct"])) = {}

\* C32: forming a match removes both matched entries from the queue in the
\* same step as the game is created, so that no entry takes part in two
\* matches and no later scan or Join pairs either participant again on the
\* strength of the old entry
C32_MatchRemovesBoth ==
    /\ \A chance \in FreshChances :
          MatchedAndGone(processQueues(MatchmakingHere, wsConnections, now, chance))
    /\ \A ws \in openSockets, boardSize \in BoardSizes, chance \in FreshChances :
          MatchedAndGone(joinQueue(MatchmakingHere, wsConnections, ws, boardSize, now,
                                   chance))
    /\ \A i \in 1 .. Len(matches) :
          /\ PlayersOf(matches[i]) \cap Waiting(queues) = {}
          /\ PlayersOf(matches[i]) \cap DOMAIN queuedUsers = {}
          /\ activeGames[matches[i].gameId] # NoGame

\* a match has formed out of a queue in which a third participant, who is
\* connected, goes on waiting
C32_Witness ==
    \E i \in 1 .. Len(matches) : \E j \in 1 .. Len(queues) :
        /\ queues[j].boardSize = matches[i].boardSize
        /\ queues[j].queue # <<>>
        /\ \A e \in 1 .. Len(queues[j].queue) :
              Registered(queues[j].queue[e].identityKey)

\* the match-formed notifications a call sends
MatchFound(m) == SelectSeq(m.later, LAMBDA msg : msg.type = "match_found")

\* the notification a participant of a match is sent, as a set
FoundFor(m, identityKey) ==
    {MatchFound(m)[n].data : n \in {n \in 1 .. Len(MatchFound(m)) :
                                       MatchFound(m)[n].to = identityKey}}

\* both participants of every match the call formed are sent one match-formed
\* notification each: with the id of the game the call created, the board
\* size both queued for, the other participant as opponent, and black for the
\* one and white for the other, as the created game seats them
BothNotified(m) ==
    /\ Len(MatchFound(m)) = 2 * Len(m.matched)
    /\ \A k \in 1 .. Len(m.matched) :
          LET match == m.matched[k]
              game == m.game.activeGames[match.gameId]
          IN  /\ match.gameId \notin Managed
              /\ game # NoGame
              /\ match.player1.boardSize = match.boardSize
              /\ match.player2.boardSize = match.boardSize
              /\ game.boardSize = match.boardSize
              /\ \A pair \in {<<match.player1, match.player2>>,
                              <<match.player2, match.player1>>} :
                    \E data \in FoundFor(m, pair[1].identityKey) :
                        /\ FoundFor(m, pair[1].identityKey) = {data}
                        /\ data.gameId = match.gameId
                        /\ data.boardSize = match.boardSize
                        /\ data.opponent = pair[2].identityKey.id
                        /\ data.color \in Colors
                        /\ data.color = "black" =>
                              /\ game.blackPlayerId = pair[1].identityKey.id
                              /\ game.whitePlayerId = pair[2].identityKey.id
                        /\ data.color = "white" =>
                              /\ game.whitePlayerId = pair[1].identityKey.id
                              /\ game.blackPlayerId = pair[2].identityKey.id
              /\ {data.color : data \in FoundFor(m, match.player1.identityKey)
                                   \cup FoundFor(m, match.player2.identityKey)} = Colors

\* C33: when a match is formed, both matched participants are sent a
\* match-formed notification; the two carry the same newly created game id and
\* the board size both queued for, name each other as opponent, and give
\* black to the one and white to the other
C33_MatchFormedNotices ==
    /\ \A chance \in FreshChances :
          BothNotified(processQueues(MatchmakingHere, wsConnections, now, chance))
    /\ \A ws \in openSockets, boardSize \in BoardSizes, chance \in FreshChances :
          BothNotified(joinQueue(MatchmakingHere, wsConnections, ws, boardSize, now, chance))

\* two participants of different user ids wait for the 13 board, both
\* registered, one of them for half a second: the next scan matches them
C33_Witness ==
    \E j \in 1 .. Len(queues) :
        /\ queues[j].boardSize = 13
        /\ Len(queues[j].queue) = 2
        /\ queues[j].queue[1].identityKey.id # queues[j].queue[2].identityKey.id
        /\ \A e \in 1 .. 2 : Registered(queues[j].queue[e].identityKey)
        /\ now - queues[j].queue[1].joinedAt >= 500
        /\ \A chance \in FreshChances :
              Len(processQueues(MatchmakingHere, wsConnections, now, chance).matched) = 1

\* the places in the send order of a Join at which the participant is sent a
\* message of the type
SentAt(order, type, identityKey) ==
    {n \in 1 .. Len(order) :
        /\ order[n].type = type
        /\ order[n].to \in {identityKey, ToIdentityKey(identityKey.id)}}

\* every queue-joined acknowledgement of the Join goes to a participant who
\* has a queue entry when the Join returns, whom the Join has not matched,
\* and who has not been sent the game-started notification before it
AcknowledgedInQueue(m, identityKey) ==
    \A n \in SentAt(sendOrder(m), "queue_joined", identityKey) :
        /\ identityKey \in Waiting(m.queues)
        /\ identityKey \notin Paired(m)
        /\ \A s \in SentAt(sendOrder(m), "game_started", identityKey) : n < s

\* C40: a participant is never sent a queue-joined acknowledgement for a
\* Join after that Join has matched it into a game: no queue-joined follows
\* the game-started notification of the match, and a queue-joined is sent only
\* while the participant has a queue entry
C40_AckBeforeMatch ==
    \A ws \in openSockets, boardSize \in BoardSizes, chance \in FreshChances :
        AcknowledgedInQueue(joinQueue(MatchmakingHere, wsConnections, ws, boardSize, now,
                                      chance),
                            identityKeyOf(ws))

----------------------------------------------------------------------------
(* The connection registry *)

\* the open sockets of an identity
SocketsOf(identityKey) == {ws \in openSockets : identityKeyOf(ws) = identityKey}

\* every identity with an open socket has an entry in the connections map
\* that points at one of its open sockets
RegistryTracksSockets ==
    \A ws \in openSockets :
        getConnectionIn(wsConnections, identityKeyOf(ws)) \in SocketsOf(identityKeyOf(ws))

\* the close of a socket leaves the map entry and the queue entry of its
\* identity in place when another socket of the identity stays open
ClosePreserves ==
    \A ws \in openSockets :
        (Disconnect(ws) /\ SocketsOf(identityKeyOf(ws)) # {ws}) =>
            /\ identityKeyOf(ws) \in DOMAIN wsConnections =>
                  identityKeyOf(ws) \in DOMAIN wsConnections'
            /\ QueuedSizes(queues', identityKeyOf(ws)) = QueuedSizes(queues, identityKeyOf(ws))

\* C39: whenever at least one open socket is identified as a participant,
\* the connections map has an entry for the participant that points at an
\* open socket; closing one socket never removes the map entry or the queue
\* entry that belongs to another socket of the same identity that is still
\* open
C39_RegistryUnderSeveralSockets == []RegistryTracksSockets /\ [][ClosePreserves]_vars

----------------------------------------------------------------------------
(* The matchmaking queue while its scans keep running *)

\* the scan
Scan == \E chance \in Chances : ProcessQueues(chance)

\* every waiting entry with the board size it waits for
AllEntries(qs) ==
    UNION {{<<qs[j].boardSize, qs[j].queue[e]>> : e \in 1 .. Len(qs[j].queue)} :
              j \in 1 .. Len(qs)}

\* a scan that changes something: it moves neither the clock nor a socket and
\* adds no entry
ScanStep ==
    /\ UNCHANGED <<wsConnections, openSockets, now>>
    /\ AllEntries(queues') \subseteq AllEntries(queues)
    /\ Scan

\* the scan's result m differs from the queue as it is
ScanActs(m) ==
    /\ \A i \in 1 .. Len(m.matched) : m.matched[i].gameId \notin issuedIds
    /\ m.queues # queues \/ m.queuedUsers # queuedUsers \/ m.matched # <<>>

\* a scan run now would change something: the enabling condition of ScanStep
ScanWouldAct ==
    /\ UnderMatchCap
    /\ \E chance \in Chances :
          ScanActs(processQueues(MatchmakingHere, wsConnections, now, chance))

\* setInterval fires the scan every 500 ms for as long as the server runs
\* (MatchmakingService.initialize): the scan is weakly fair, WF_vars(ScanStep)
\* with its enabling condition written out; and time passes
SpecMMLive ==
    /\ Init
    /\ [][NextMM]_vars
    /\ ([]<>~ScanWouldAct) \/ ([]<><<ScanStep>>_vars)
    /\ WF_vars(AdvanceClock(500))

\* the participant waits for the board size
QueuedFor(identityKey, boardSize) == boardSize \in QueuedSizes(queues, identityKey)

\* the time the participant has waited for the board size
WaitOf(identityKey, boardSize) ==
    LET entry == CHOOSE entry \in WaitingEntry(queues, boardSize, identityKey) : TRUE
    IN  now - entry.joinedAt

\* two different participants, both registered, wait for the same board
\* size; one of them has waited half a second and neither more than a minute
ReadyPair(p, q, boardSize) ==
    /\ p # q
    /\ QueuedFor(p, boardSize) /\ QueuedFor(q, boardSize)
    /\ Registered(p) /\ Registered(q)
    /\ WaitOf(p, boardSize) >= 500 \/ WaitOf(q, boardSize) >= 500
    /\ WaitOf(p, boardSize) <= maxAge /\ WaitOf(q, boardSize) <= maxAge

\* the participant has been matched into a game
MatchedInto(identityKey) == \E i \in 1 .. Len(matches) : identityKey \in PlayersOf(matches[i])

\* nobody waits for another board size
OtherQueuesEmpty(boardSize) ==
    \A j \in 1 .. Len(queues) : queues[j].boardSize # boardSize => queues[j].queue = <<>>

\* the participant on the third socket and the one on the fourth: two
\* different participants with the same user id
ThirdKey == identityKeyOf([socket |-> 3])
FourthKey == identityKeyOf([socket |-> 4])

====
